---- MODULE Spec2Model ----
(***************************************************************************)
(* Pico de Gallo: a USB bridge to I2C / SPI / GPIO.                        *)
(*                                                                         *)
(* The module models the device dispatchers (the postcard-rpc firmware of  *)
(* crates/pico-de-gallo-firmware and the legacy unified dispatcher         *)
(* gallo_task of firmware/src/main.rs), the host client of                 *)
(* crates/pico-de-gallo-lib, the two bulk pipes between them, and the      *)
(* downstream buses as seen through the HAL calls the handlers make.       *)
(***************************************************************************)
EXTENDS Integers, Sequences, FiniteSets, TLC

\* ------------------------------------------------------------------ bounds
\* Requests the host issues in one run.
MaxReqs == 2

\* ------------------------------------------------------- program constants
BUFFER_SIZE == 512
BUS_BUFFER_SIZE == 3072
NUM_GPIOS == 8
U16_MAX == 65535

\* ---------------------------------------------------------------- postcard
\* postcard's varint(LEB128): 7 bits per byte, least significant group first,
\* the top bit of a byte says that another byte follows.
RECURSIVE VarintEncode(_)
VarintEncode(n) ==
    IF n < 128 THEN <<n>>
    ELSE <<(n % 128) + 128>> \o VarintEncode(n \div 128)

\* Decodes one varint of at most maxBytes bytes starting at bytes[i]; yields
\* the value and the index after it, or ok = FALSE on a truncated or over-long
\* input (postcard's DeserializeUnexpectedEnd / DeserializeBadVarint).
RECURSIVE VarintDecodeAt(_, _, _, _, _)
VarintDecodeAt(bytes, i, used, mult, acc) ==
    IF i > Len(bytes) \/ used = 0 THEN [ok |-> FALSE, val |-> 0, next |-> i]
    ELSE IF bytes[i] >= 128
         THEN VarintDecodeAt(bytes, i + 1, used - 1, mult * 128,
                             acc + (bytes[i] - 128) * mult)
         ELSE [ok |-> TRUE, val |-> acc + bytes[i] * mult, next |-> i + 1]

\* A u16 field: a varint of at most three bytes.
TakeU16(bytes, i) ==
    LET d == VarintDecodeAt(bytes, i, 3, 1, 0)
    IN  IF d.ok /\ d.val <= U16_MAX THEN d
        ELSE [ok |-> FALSE, val |-> 0, next |-> i]

\* A length or an enum variant index: a varint. Values of 2^28 and more
\* (a fifth byte) exceed every frame and every enum, so they are rejected
\* here as the callers would reject them.
TakeLen(bytes, i) ==
    LET d == VarintDecodeAt(bytes, i, 4, 1, 0)
    IN  IF d.ok THEN d ELSE [ok |-> FALSE, val |-> 0, next |-> i]

\* A u32 is kept as its two 16-bit halves, value = hi * 65536 + lo.
U32(hi, lo) == [hi |-> hi, lo |-> lo]

\* The five 7-bit groups of a u32, least significant first.
U32Groups(v) ==
    <<v.lo % 128,
      (v.lo \div 128) % 128,
      (v.lo \div 16384) + (v.hi % 32) * 4,
      (v.hi \div 32) % 128,
      v.hi \div 4096>>

U32FromGroups(g) ==
    U32((g[3] \div 4) + g[4] * 32 + g[5] * 4096,
        g[1] + g[2] * 128 + (g[3] % 4) * 16384)

\* The varint of a u32: its groups up to the last non-zero one.
EncodeU32(v) ==
    LET g == U32Groups(v)
        n == IF \E k \in 1 .. 5 : g[k] # 0
             THEN CHOOSE k \in 1 .. 5 : g[k] # 0 /\ \A j \in (k + 1) .. 5 : g[j] = 0
             ELSE 1
    IN  [k \in 1 .. n |-> IF k < n THEN g[k] + 128 ELSE g[k]]

\* A u32 field: at most five bytes, the fifth holding the top four bits.
TakeU32(bytes, i) ==
    LET bad == [ok |-> FALSE, val |-> U32(0, 0), next |-> i]
        ends == {k \in 1 .. 5 : i + k - 1 <= Len(bytes) /\ bytes[i + k - 1] < 128}
    IN  IF ends = {} THEN bad
        ELSE LET n == CHOOSE k \in ends : \A j \in ends : k <= j
             IN  IF \E k \in 1 .. (n - 1) : i + k - 1 > Len(bytes) THEN bad
                 ELSE LET g == [k \in 1 .. 5 |->
                                   IF k <= n THEN bytes[i + k - 1] % 128 ELSE 0]
                      IN  IF g[5] >= 16 THEN bad
                          ELSE [ok |-> TRUE, val |-> U32FromGroups(g),
                                next |-> i + n]

\* A u8 field: one raw byte.
TakeU8(bytes, i) ==
    IF i > Len(bytes) THEN [ok |-> FALSE, val |-> 0, next |-> i]
    ELSE [ok |-> TRUE, val |-> bytes[i], next |-> i + 1]

\* A slice encoder that writes the length as one raw byte.
EncodeSliceByteLen(s) == <<Len(s) % 256>> \o s

\* A byte slice field: varint length, then that many bytes.
EncodeSlice(s) == VarintEncode(Len(s)) \o s

TakeSlice(bytes, i) ==
    LET n == TakeLen(bytes, i)
    IN  IF n.ok /\ n.next + n.val - 1 <= Len(bytes)
        THEN [ok |-> TRUE, val |-> SubSeq(bytes, n.next, n.next + n.val - 1),
              next |-> n.next + n.val]
        ELSE [ok |-> FALSE, val |-> <<>>, next |-> i]

\* ------------------------------------------------------------- wire schema
\* The endpoint paths of ENDPOINT_LIST, in table order.
ENDPOINT_LIST ==
    <<"ping", "i2c/read", "i2c/write", "spi/read", "spi/write", "spi/flush",
      "gpio/get", "gpio/put", "gpio/wait-high", "gpio/wait-low",
      "gpio/wait-rising", "gpio/wait-falling", "gpio/wait-any",
      "set-config", "version">>

Endpoints == {ENDPOINT_LIST[i] : i \in DOMAIN ENDPOINT_LIST}

GpioWaitEndpoints ==
    {"gpio/wait-high", "gpio/wait-low", "gpio/wait-rising",
     "gpio/wait-falling", "gpio/wait-any"}

\* A typed request; the fields an endpoint's request type lacks stay at
\* their defaults.
\* struct SetConfigurationRequest; spi_phase and spi_polarity hold the variant
\* index of SpiPhase and SpiPolarity.  DefaultConfig is what main() builds the
\* buses with: i2c::Config::default() (100 kHz) and spi::Config::default()
\* (1 MHz, capture on the first transition, idle low).
DefaultConfig ==
    [i2c_frequency |-> U32(1, 34464), spi_frequency |-> U32(15, 16960),
     spi_phase |-> 0, spi_polarity |-> 0]

EncodeConfig(c) ==
    EncodeU32(c.i2c_frequency) \o EncodeU32(c.spi_frequency)
        \o <<c.spi_phase, c.spi_polarity>>

TakeConfig(bytes, i) ==
    LET fi == TakeU32(bytes, i)
        fs == TakeU32(bytes, fi.next)
        ph == TakeLen(bytes, fs.next)
        po == TakeLen(bytes, ph.next)
    IN  IF fi.ok /\ fs.ok /\ ph.ok /\ po.ok /\ ph.val \in {0, 1}
           /\ po.val \in {0, 1}
        THEN [ok |-> TRUE, next |-> po.next,
              val |-> [i2c_frequency |-> fi.val, spi_frequency |-> fs.val,
                       spi_phase |-> ph.val, spi_polarity |-> po.val]]
        ELSE [ok |-> FALSE, next |-> i, val |-> DefaultConfig]

NoReq ==
    [ep |-> "none", address |-> 0, count |-> 0, contents |-> <<>>,
     pin |-> 0, state |-> "Low", value |-> U32(0, 0), config |-> DefaultConfig]

\* enum GpioState { Low, High }: the variant index is the wire value.
GpioStateIndex(s) == IF s = "Low" THEN 0 ELSE 1

TakeGpioState(bytes, i) ==
    LET d == TakeLen(bytes, i)
    IN  IF d.ok /\ d.val \in {0, 1}
        THEN [ok |-> TRUE, val |-> IF d.val = 0 THEN "Low" ELSE "High",
              next |-> d.next]
        ELSE [ok |-> FALSE, val |-> "Low", next |-> i]

\* Serialize of each endpoint's request type: the fields in declaration order.
EncodeRequest(r) ==
    CASE r.ep = "ping" -> EncodeU32(r.value)
      [] r.ep = "i2c/read" -> <<r.address>> \o VarintEncode(r.count)
      [] r.ep = "i2c/write" -> <<r.address>> \o EncodeSlice(r.contents)
      [] r.ep = "spi/read" -> VarintEncode(r.count)
      [] r.ep = "spi/write" -> EncodeSlice(r.contents)
      [] r.ep = "gpio/get" -> <<r.pin>>
      [] r.ep = "gpio/put" -> <<r.pin, GpioStateIndex(r.state)>>
      [] r.ep \in GpioWaitEndpoints -> <<r.pin>>
      [] r.ep = "set-config" -> EncodeConfig(r.config)
      [] OTHER -> <<>>

\* Deserialize of each endpoint's request type; trailing bytes are ignored,
\* as postcard's from_bytes ignores them.
DecodeRequest(ep, body) ==
    LET bad == [ok |-> FALSE, req |-> NoReq]
        good(r) == [ok |-> TRUE, req |-> r]
        base == [NoReq EXCEPT !.ep = ep]
    IN  CASE ep = "ping" ->
               LET v == TakeU32(body, 1)
               IN  IF v.ok THEN good([base EXCEPT !.value = v.val]) ELSE bad
          [] ep = "i2c/read" ->
               LET a == TakeU8(body, 1)
                   c == TakeU16(body, a.next)
               IN  IF a.ok /\ c.ok
                   THEN good([base EXCEPT !.address = a.val, !.count = c.val])
                   ELSE bad
          [] ep = "i2c/write" ->
               LET a == TakeU8(body, 1)
                   s == TakeSlice(body, a.next)
               IN  IF a.ok /\ s.ok
                   THEN good([base EXCEPT !.address = a.val, !.contents = s.val])
                   ELSE bad
          [] ep = "spi/read" ->
               LET c == TakeU16(body, 1)
               IN  IF c.ok THEN good([base EXCEPT !.count = c.val]) ELSE bad
          [] ep = "spi/write" ->
               LET s == TakeSlice(body, 1)
               IN  IF s.ok THEN good([base EXCEPT !.contents = s.val]) ELSE bad
          [] ep = "gpio/get" ->
               LET p == TakeU8(body, 1)
               IN  IF p.ok THEN good([base EXCEPT !.pin = p.val]) ELSE bad
          [] ep = "gpio/put" ->
               LET p == TakeU8(body, 1)
                   s == TakeGpioState(body, p.next)
               IN  IF p.ok /\ s.ok
                   THEN good([base EXCEPT !.pin = p.val, !.state = s.val])
                   ELSE bad
          [] ep \in GpioWaitEndpoints ->
               LET p == TakeU8(body, 1)
               IN  IF p.ok THEN good([base EXCEPT !.pin = p.val]) ELSE bad
          [] ep = "set-config" ->
               LET c == TakeConfig(body, 1)
               IN  IF c.ok THEN good([base EXCEPT !.config = c.val]) ELSE bad
          [] OTHER -> good(base)

\* A typed response: tag "Ok" or "Err" (the endpoint's failure marker, a unit
\* struct), the bytes of a read, the value of ping, the state of gpio/get.
RespUnit == [tag |-> "Ok", data |-> <<>>, value |-> U32(0, 0), state |-> "Low"]
RespData(data) == [RespUnit EXCEPT !.data = data]
RespValue(v) == [RespUnit EXCEPT !.value = v]
RespState(s) == [RespUnit EXCEPT !.state = s]
RespErr == [RespUnit EXCEPT !.tag = "Err"]

\* Ping and Version answer with a bare value, every other endpoint with a
\* Result: variant 0 is Ok, variant 1 the failure marker.
EncodeResponse(ep, r) ==
    CASE ep = "ping" -> EncodeU32(r.value)
      [] ep = "version" ->
           VarintEncode(r.data[1]) \o VarintEncode(r.data[2])
             \o EncodeU32(r.value)
      [] ep \in {"i2c/read", "spi/read"} ->
           IF r.tag = "Ok" THEN <<0>> \o EncodeSlice(r.data) ELSE <<1>>
      [] ep = "gpio/get" ->
           IF r.tag = "Ok" THEN <<0, GpioStateIndex(r.state)>> ELSE <<1>>
      [] OTHER -> IF r.tag = "Ok" THEN <<0>> ELSE <<1>>

DecodeResponse(ep, body) ==
    LET bad == [ok |-> FALSE, resp |-> RespErr]
        good(r) == [ok |-> TRUE, resp |-> r]
        tag == TakeLen(body, 1)
    IN  CASE ep = "ping" ->
               LET v == TakeU32(body, 1)
               IN  IF v.ok THEN good(RespValue(v.val)) ELSE bad
          [] ep = "version" ->
               LET ma == TakeU16(body, 1)
                   mi == TakeU16(body, ma.next)
                   pa == TakeU32(body, mi.next)
               IN  IF ma.ok /\ mi.ok /\ pa.ok
                   THEN good([RespUnit EXCEPT !.data = <<ma.val, mi.val>>,
                                              !.value = pa.val])
                   ELSE bad
          [] OTHER ->
               IF ~tag.ok \/ tag.val \notin {0, 1} THEN bad
               ELSE IF tag.val = 1 THEN good(RespErr)
               ELSE IF ep \in {"i2c/read", "spi/read"}
                    THEN LET s == TakeSlice(body, tag.next)
                         IN  IF s.ok THEN good(RespData(s.val)) ELSE bad
               ELSE IF ep = "gpio/get"
                    THEN LET g == TakeGpioState(body, tag.next)
                         IN  IF g.ok
                             THEN good(RespState(g.val))
                             ELSE bad
               ELSE good(RespUnit)

\* ------------------------------------------------------------------- state
VARIABLES
    fw,        \* which firmware runs on the device: "rpc" or "legacy"
    profile,   \* which part of the client API the host application uses
    enabled,   \* the bulk endpoints are enabled (the host has configured them)
    pc,        \* the dispatcher's position
    outq,      \* frames on the bulk OUT pipe, host to device
    inq,       \* frames on the bulk IN pipe, device to host
    cur,       \* the frame the dispatcher is handling
    resp,      \* the response frame the dispatcher is about to write
    buf,       \* Context.buf, the working buffer
    gpios,     \* Context.gpios: per pin its direction and driven level
    line,      \* the electrical level of each GPIO line
    i2cPtr,    \* the downstream I2C device's register pointer
    sent,      \* requests the host has issued so far
    calls,     \* the host's outstanding calls, oldest first
    result,    \* the host call that completed last
    busOp,     \* history: the bus operation the current handler performed
    handled,   \* history: handler invocations for the current frame
    inProgress,\* history: ids of frames read and not yet answered or dropped
    wlog,      \* history: the last response written and the one before it
    pipelined, \* history: the host issued a request while one was outstanding
    edge,      \* history: levels of the line during the last wait call
    busConfig, \* the configuration the I2C and SPI peripherals run with
    ffi,       \* the C program's handle and the allocation behind it
    client,    \* one PicoDeGallo: its link to the device and who waits on it
    usb,       \* packets of the legacy firmware's bulk pipe, writer and reader
    hal,       \* the HAL's shared lock and the tasks that use its handles
    scan,      \* the I2C scan of the command line application
    exec       \* the firmware's executor: its tasks and what wakes them

vars ==
    <<fw, profile, enabled, pc, outq, inq, cur, resp, buf, gpios, line, i2cPtr,
      sent, calls, result, busOp, handled, inProgress, wlog, pipelined,
      edge, busConfig, ffi, client, usb, hal, scan, exec>>

\* The state of the layers above and beside the client and the dispatcher.
sideAux == <<ffi, client, usb, scan, exec>>
hostAux == <<hal, sideAux>>
aux == <<busConfig, hostAux>>

\* The device, the pipes and the client.
core ==
    <<fw, profile, enabled, pc, outq, inq, cur, resp, buf, gpios, line, i2cPtr,
      sent, calls, result, busOp, handled, inProgress, wlog, pipelined, edge>>

Pins == 0 .. (NUM_GPIOS - 1)

NoFrame == [key |-> "none", seq |-> 0, body |-> <<>>]
NoBusOp == [op |-> "none", address |-> 0, len |-> 0, ok |-> TRUE, bytes |-> <<>>]
NoResult ==
    [id |-> 0, req |-> NoReq, outcome |-> "none", data |-> <<>>,
     value |-> U32(0, 0), state |-> "Low", wire |-> "none"]

\* ------------------------------------------------------- downstream buses
\* The I2C device on the bus: a register file read from the register pointer
\* that the first byte of the last write set. Register 0x0F holds 0xAB and
\* register 0x10 holds 0xCD.
I2cStubByte(a) ==
    CASE a % 256 = 15 -> 171
      [] a % 256 = 16 -> 205
      [] OTHER -> ((a % 256) * 7 + 1) % 256

I2cStubData(ptr, n) == [i \in 1 .. n |-> I2cStubByte(ptr + i - 1)]

\* What the SPI peripheral clocks in on MISO.
SpiStubData(n) == [i \in 1 .. n |-> (i * 3) % 256]

\* buf[..n] = data: the first n bytes replaced, the rest kept.
FillPrefix(b, data) ==
    [i \in 1 .. Len(b) |-> IF i <= Len(data) THEN data[i] ELSE b[i]]

\* ------------------------------------------- postcard-rpc firmware handlers
\* A handler's outcome: its response, the context it leaves, the bus
\* operation it performed, and whether it panicked (a slice or an array
\* indexed out of range).
Outcome(r, b, g, l, p, op, panic) ==
    [resp |-> r, buf |-> b, gpios |-> g, line |-> l, ptr |-> p, bus |-> op,
     panic |-> panic, cfg |-> busConfig]

Unchanged(r) == Outcome(r, buf, gpios, line, i2cPtr, NoBusOp, FALSE)
Panic == Outcome(RespErr, buf, gpios, line, i2cPtr, NoBusOp, TRUE)

\* A ping that keeps only the low half of the value.
ping_handler_truncating(rqst) == Unchanged(RespValue(U32(0, rqst.value.lo)))

\* fn ping_handler
ping_handler(rqst) == Unchanged(RespValue(rqst.value))

\* An I2C read without the check of count against BUFFER_SIZE.
i2c_read_handler_unchecked(req, busOk) ==
    IF req.count > Len(buf) THEN Panic
    ELSE LET op == [op |-> "i2c_read", address |-> req.address,
                    len |-> req.count, ok |-> busOk, bytes |-> <<>>]
             b2 == IF busOk
                   THEN FillPrefix(buf, I2cStubData(i2cPtr, req.count))
                   ELSE buf
         IN  Outcome(IF busOk THEN RespData(SubSeq(b2, 1, req.count))
                     ELSE RespErr,
                     b2, gpios, line, i2cPtr, op, FALSE)

\* An I2C read that fills the whole working buffer from the bus, whatever
\* the count.
i2c_read_handler_whole_buf(req, busOk) ==
    IF req.count > BUFFER_SIZE THEN Unchanged(RespErr)
    ELSE LET op == [op |-> "i2c_read", address |-> req.address,
                    len |-> Len(buf), ok |-> busOk, bytes |-> <<>>]
             b2 == IF busOk THEN I2cStubData(i2cPtr, Len(buf)) ELSE buf
         IN  Outcome(IF busOk THEN RespData(SubSeq(b2, 1, req.count))
                     ELSE RespErr,
                     b2, gpios, line, i2cPtr, op, FALSE)

\* async fn i2c_read_handler
i2c_read_handler(req, busOk) ==
    IF req.count > BUFFER_SIZE THEN Unchanged(RespErr)
    ELSE IF req.count > Len(buf) THEN Panic
    ELSE LET op == [op |-> "i2c_read", address |-> req.address,
                    len |-> req.count, ok |-> busOk, bytes |-> <<>>]
             b2 == IF busOk
                   THEN FillPrefix(buf, I2cStubData(i2cPtr, req.count))
                   ELSE buf
         IN  Outcome(IF busOk THEN RespData(SubSeq(b2, 1, req.count))
                     ELSE RespErr,
                     b2, gpios, line, i2cPtr, op, FALSE)

\* A write handler that puts the bus back to its default configuration when
\* the write fails.
i2c_write_handler_reconfiguring(req, busOk) ==
    [Outcome(IF busOk THEN RespUnit ELSE RespErr, buf, gpios, line,
             IF busOk /\ req.contents # <<>> THEN req.contents[1] ELSE i2cPtr,
             [op |-> "i2c_write", address |-> req.address,
              len |-> Len(req.contents), ok |-> busOk, bytes |-> req.contents],
             FALSE)
        EXCEPT !.cfg = IF busOk THEN busConfig ELSE DefaultConfig]

\* async fn i2c_write_handler
i2c_write_handler(req, busOk) ==
    LET op == [op |-> "i2c_write", address |-> req.address,
               len |-> Len(req.contents), ok |-> busOk,
               bytes |-> req.contents]
        p2 == IF busOk /\ req.contents # <<>> THEN req.contents[1] ELSE i2cPtr
    IN  Outcome(IF busOk THEN RespUnit ELSE RespErr,
                buf, gpios, line, p2, op, FALSE)

\* async fn spi_read_handler
spi_read_handler(req, busOk) ==
    IF req.count > BUFFER_SIZE THEN Unchanged(RespErr)
    ELSE IF req.count > Len(buf) THEN Panic
    ELSE LET op == [op |-> "spi_read", address |-> 0, len |-> req.count,
                    ok |-> busOk, bytes |-> <<>>]
             b2 == IF busOk THEN FillPrefix(buf, SpiStubData(req.count))
                   ELSE buf
         IN  Outcome(IF busOk THEN RespData(SubSeq(b2, 1, req.count))
                     ELSE RespErr,
                     b2, gpios, line, i2cPtr, op, FALSE)

\* async fn spi_write_handler
spi_write_handler(req, busOk) ==
    LET op == [op |-> "spi_write", address |-> 0, len |-> Len(req.contents),
               ok |-> busOk, bytes |-> req.contents]
    IN  Outcome(IF busOk THEN RespUnit ELSE RespErr,
                buf, gpios, line, i2cPtr, op, FALSE)

\* A flush that reports success whatever the bus says.
spi_flush_handler_ignoring(busOk) ==
    LET op == [op |-> "spi_flush", address |-> 0, len |-> 0, ok |-> busOk, bytes |-> <<>>]
    IN  Outcome(RespUnit, buf, gpios, line, i2cPtr, op, FALSE)

\* async fn spi_flush_handler
spi_flush_handler(busOk) ==
    LET op == [op |-> "spi_flush", address |-> 0, len |-> 0, ok |-> busOk, bytes |-> <<>>]
    IN  Outcome(IF busOk THEN RespUnit ELSE RespErr,
                buf, gpios, line, i2cPtr, op, FALSE)

\* async fn gpio_get_handler
gpio_get_handler(req) ==
    IF req.pin \notin Pins THEN Panic
    ELSE LET g2 == [gpios EXCEPT ![req.pin].dir = "in"]
         IN  Outcome(RespState(line[req.pin]),
                     buf, g2, line, i2cPtr, NoBusOp, FALSE)

\* async fn gpio_put_handler
gpio_put_handler(req) ==
    IF req.pin \notin Pins THEN Panic
    ELSE LET g2 == [gpios EXCEPT ![req.pin] =
                        [dir |-> "out", level |-> req.state]]
             l2 == [line EXCEPT ![req.pin] = req.state]
         IN  Outcome(RespUnit, buf, g2, l2, i2cPtr, NoBusOp, FALSE)

\* A handler that gives up at the first failure, before it touches SPI.
set_config_handler_all_or_nothing(req, busOk) ==
    [Outcome(IF busOk THEN RespUnit ELSE RespErr, buf, gpios, line, i2cPtr,
             [op |-> "i2c_set_config", address |-> 0, len |-> 0, ok |-> busOk,
              bytes |-> <<>>],
             FALSE)
        EXCEPT !.cfg = IF busOk THEN req.config ELSE busConfig]

\* A handler that forgets the result of the I2C reconfiguration.
set_config_handler_always_ok(req, busOk) ==
    [Outcome(RespUnit, buf, gpios, line, i2cPtr,
             [op |-> "i2c_set_config", address |-> 0, len |-> 0, ok |-> busOk,
              bytes |-> <<>>],
             FALSE)
        EXCEPT !.cfg = [req.config EXCEPT
                            !.i2c_frequency = IF busOk THEN req.config.i2c_frequency
                                              ELSE busConfig.i2c_frequency]]

\* set_config_handler: context.spi.set_config(..) first, its result dropped;
\* then context.i2c.set_config(..), whose error becomes SetConfigurationFail.
\* An I2C reconfiguration that fails leaves the I2C frequency as it was.
set_config_handler(req, busOk) ==
    [Outcome(IF busOk THEN RespUnit ELSE RespErr, buf, gpios, line, i2cPtr,
             [op |-> "i2c_set_config", address |-> 0, len |-> 0, ok |-> busOk,
              bytes |-> <<>>],
             FALSE)
        EXCEPT !.cfg = [req.config EXCEPT
                            !.i2c_frequency = IF busOk THEN req.config.i2c_frequency
                                              ELSE busConfig.i2c_frequency]]

\* async fn version_handler: the three numbers of the package version, fixed
\* when the firmware is built; the model takes 0.1.0.
version_handler ==
    Unchanged([RespUnit EXCEPT !.data = <<0, 1>>, !.value = U32(0, 0)])

\* define_dispatch! endpoints: the endpoints the dispatcher routes to a
\* handler. A key outside the table is answered with WireError::UnknownKey.
DispatchTable ==
    {"ping", "i2c/read", "i2c/write", "spi/read", "spi/write", "spi/flush",
     "gpio/get", "gpio/put", "set-config", "version"}

\* The handler the table names for an endpoint, applied to the decoded request.
RunHandler(ep, req, busOk) ==
    CASE ep = "ping" -> ping_handler(req)
      [] ep = "i2c/read" -> i2c_read_handler(req, busOk)
      [] ep = "i2c/write" -> i2c_write_handler(req, busOk)
      [] ep = "spi/read" -> spi_read_handler(req, busOk)
      [] ep = "spi/write" -> spi_write_handler(req, busOk)
      [] ep = "spi/flush" -> spi_flush_handler(busOk)
      [] ep = "gpio/get" -> gpio_get_handler(req)
      [] ep = "gpio/put" -> gpio_put_handler(req)
      [] ep = "set-config" -> set_config_handler(req, busOk)
      [] ep = "version" -> version_handler
      [] OTHER -> Unchanged(RespUnit)

\* The frame on the error path that carries a WireError.
\* enum WireError of postcard-rpc's standard_icd: the variant index on the wire.
WireErrorIndex(err) ==
    CASE err = "FrameTooLong" -> 0
      [] err = "FrameTooShort" -> 1
      [] err = "DeserFailed" -> 2
      [] err = "SerFailed" -> 3
      [] err = "UnknownKey" -> 4
      [] err = "FailedToSpawn" -> 5
      [] OTHER -> 6

WireErrorName(i) ==
    CASE i = 0 -> "FrameTooLong"
      [] i = 1 -> "FrameTooShort"
      [] i = 2 -> "DeserFailed"
      [] i = 3 -> "SerFailed"
      [] i = 4 -> "UnknownKey"
      [] i = 5 -> "FailedToSpawn"
      [] OTHER -> "KeyTooSmall"

WireErrorFrame(seq, err) ==
    [key |-> "error", seq |-> seq, body |-> <<WireErrorIndex(err)>>]

\* ------------------------------------------- postcard-rpc firmware: main
\* server.run(): the endpoints come up.
RpcConnect ==
    /\ fw = "rpc" /\ pc = "WaitingForConnection" /\ enabled
    /\ pc' = "AwaitingFrame"
    /\ UNCHANGED <<aux, fw, profile, enabled, outq, inq, cur, resp, buf, gpios, line, i2cPtr,
                   sent, calls, result, busOp, handled, inProgress,
                   wlog, pipelined, edge>>

\* A dispatcher that also takes a frame while a response is still to be written.
RpcCanReceiveWhileResponding == pc \in {"AwaitingFrame", "Responding"}

\* The receive is only awaited at the top of the server's loop.
RpcCanReceive == pc = "AwaitingFrame"

\* A dispatcher that takes the newest frame on the pipe instead of the oldest.
RpcReceiveNewest ==
    /\ fw = "rpc" /\ RpcCanReceive /\ enabled /\ outq # <<>>
    /\ cur' = outq[Len(outq)]
    /\ outq' = SubSeq(outq, 1, Len(outq) - 1)
    /\ pc' = "Dispatching"
    /\ busOp' = NoBusOp
    /\ handled' = 0
    /\ inProgress' = inProgress \cup {outq[Len(outq)].seq}
    /\ UNCHANGED <<aux, fw, profile, enabled, inq, resp, buf, gpios, line, i2cPtr, sent,
                   calls, result, wlog, pipelined, edge>>

\* server.run(): one frame is received from the OUT endpoint.
RpcReceive ==
    /\ fw = "rpc" /\ RpcCanReceive /\ enabled /\ outq # <<>>
    /\ cur' = Head(outq)
    /\ outq' = Tail(outq)
    /\ pc' = "Dispatching"
    /\ busOp' = NoBusOp
    /\ handled' = 0
    /\ inProgress' = inProgress \cup {Head(outq).seq}
    /\ UNCHANGED <<aux, fw, profile, enabled, inq, resp, buf, gpios, line, i2cPtr, sent,
                   calls, result, wlog, pipelined, edge>>

\* server.run() returns an error when the host disconnects; main's loop calls
\* it again.
RpcReceiveFail ==
    /\ fw = "rpc" /\ pc = "AwaitingFrame" /\ ~enabled
    /\ pc' = "WaitingForConnection"
    /\ UNCHANGED <<aux, fw, profile, enabled, outq, inq, cur, resp, buf, gpios, line, i2cPtr,
                   sent, calls, result, busOp, handled, inProgress,
                   wlog, pipelined, edge>>

\* The dispatcher routes the frame by key and awaits the handler.
RpcDispatch ==
    /\ fw = "rpc" /\ pc = "Dispatching"
    /\ handled' = handled + 1
    /\ IF cur.key \notin DispatchTable
       THEN /\ resp' = WireErrorFrame(cur.seq, "UnknownKey")
            /\ pc' = "Responding"
            /\ UNCHANGED <<buf, gpios, line, i2cPtr, busOp, inProgress,
                           busConfig>>
       ELSE LET d == DecodeRequest(cur.key, cur.body)
            IN  IF ~d.ok
                THEN /\ resp' = WireErrorFrame(cur.seq, "DeserFailed")
                     /\ pc' = "Responding"
                     /\ UNCHANGED <<buf, gpios, line, i2cPtr, busOp,
                                    inProgress, busConfig>>
                ELSE \E busOk \in BOOLEAN :
                       LET o == RunHandler(cur.key, d.req, busOk)
                       IN  /\ buf' = o.buf
                           /\ gpios' = o.gpios
                           /\ line' = o.line
                           /\ i2cPtr' = o.ptr
                           /\ busOp' = o.bus
                           /\ busConfig' = o.cfg
                           /\ IF o.panic
                              THEN /\ pc' = "Panicked"
                                   /\ inProgress' = inProgress \ {cur.seq}
                                   /\ UNCHANGED resp
                              ELSE /\ pc' = "Responding"
                                   /\ resp' = [key |-> cur.key, seq |-> cur.seq,
                                               body |-> EncodeResponse(cur.key, o.resp)]
                                   /\ UNCHANGED inProgress
    /\ UNCHANGED <<hostAux, fw, profile, enabled, outq, inq, cur, sent, calls,
                   result, wlog, pipelined, edge>>

\* The response is written to the IN endpoint; the write fails when the host
\* has gone, server.run() returns and main's loop calls it again.
RpcReply ==
    /\ fw = "rpc" /\ pc = "Responding"
    /\ inProgress' = inProgress \ {cur.seq}
    /\ IF enabled
       THEN /\ inq' = Append(inq, resp)
            /\ wlog' = [prev |-> wlog.id, id |-> resp.seq, latest |-> sent]
            /\ pc' = "AwaitingFrame"
       ELSE /\ pc' = "WaitingForConnection"
            /\ UNCHANGED <<inq, wlog>>
    /\ UNCHANGED <<aux, fw, profile, enabled, outq, cur, resp, buf, gpios, line,
                   i2cPtr, sent, calls, result, busOp, handled,
                   pipelined, edge>>

\* ------------------------------------------------- legacy wire (internal)
\* Option<T>: a presence byte, then the value.
None == [some |-> FALSE, val |-> 0]
NoneBytes == [some |-> FALSE, val |-> <<>>]
NoneState == [some |-> FALSE, val |-> "Low"]
Some(v) == [some |-> TRUE, val |-> v]

EncodeOptionU16(o) == IF o.some THEN <<1>> \o VarintEncode(o.val) ELSE <<0>>
EncodeOptionSlice(o) == IF o.some THEN <<1>> \o EncodeSlice(o.val) ELSE <<0>>
EncodeOptionState(o) == IF o.some THEN <<1, GpioStateIndex(o.val)>> ELSE <<0>>

TakeOptionU16(bytes, i) ==
    LET t == TakeU8(bytes, i)
        v == TakeU16(bytes, t.next)
    IN  IF t.ok /\ t.val = 0 THEN [ok |-> TRUE, val |-> None, next |-> t.next]
        ELSE IF t.ok /\ t.val = 1 /\ v.ok
        THEN [ok |-> TRUE, val |-> Some(v.val), next |-> v.next]
        ELSE [ok |-> FALSE, val |-> None, next |-> i]

TakeOptionSlice(bytes, i) ==
    LET t == TakeU8(bytes, i)
        v == TakeSlice(bytes, t.next)
    IN  IF t.ok /\ t.val = 0
        THEN [ok |-> TRUE, val |-> NoneBytes, next |-> t.next]
        ELSE IF t.ok /\ t.val = 1 /\ v.ok
        THEN [ok |-> TRUE, val |-> Some(v.val), next |-> v.next]
        ELSE [ok |-> FALSE, val |-> NoneBytes, next |-> i]

TakeOptionState(bytes, i) ==
    LET t == TakeU8(bytes, i)
        v == TakeGpioState(bytes, t.next)
    IN  IF t.ok /\ t.val = 0
        THEN [ok |-> TRUE, val |-> NoneState, next |-> t.next]
        ELSE IF t.ok /\ t.val = 1 /\ v.ok
        THEN [ok |-> TRUE, val |-> Some(v.val), next |-> v.next]
        ELSE [ok |-> FALSE, val |-> NoneState, next |-> i]

\* enum Request { I2c, Spi, Gpio }: kind is the variant, opcode the index of
\* I2cOpcode { Read, Write }, SpiOpcode { Transfer, Flush } or
\* GpioOpcode { GetState, SetState }.
LegacyNoReq ==
    [kind |-> "none", opcode |-> 0, address |-> 0, size |-> None,
     data |-> NoneBytes, pin |-> 0, state |-> NoneState,
     config |-> DefaultConfig]

\* Request::SetConfig and Response::SetConfig, as the firmware and the
\* library use them: the variant that follows Gpio in each enum.
LegacySetConfigRequestIndex == 3
LegacySetConfigResponseIndex == 4

LegacyEncodeRequest(r) ==
    CASE r.kind = "I2c" ->
           <<0, r.opcode>> \o VarintEncode(r.address) \o VarintEncode(r.size.val)
             \o EncodeOptionSlice(r.data)
      [] r.kind = "Spi" ->
           <<1, r.opcode>> \o EncodeOptionU16(r.size) \o EncodeOptionSlice(r.data)
      [] r.kind = "Gpio" ->
           <<2, r.opcode, r.pin>> \o EncodeOptionState(r.state)
      [] r.kind = "SetConfig" ->
           <<LegacySetConfigRequestIndex>> \o EncodeConfig(r.config)
      [] OTHER -> <<>>

\* from_bytes::<Request>
LegacyDecodeRequest(bytes) ==
    LET bad == [ok |-> FALSE, req |-> LegacyNoReq]
        good(r) == [ok |-> TRUE, req |-> r]
        variant == TakeLen(bytes, 1)
        opcode == TakeLen(bytes, variant.next)
        c == TakeConfig(bytes, variant.next)
    IN  IF variant.ok /\ variant.val = LegacySetConfigRequestIndex
        THEN IF c.ok
             THEN good([LegacyNoReq EXCEPT !.kind = "SetConfig",
                                           !.config = c.val])
             ELSE bad
        ELSE IF ~variant.ok \/ ~opcode.ok \/ opcode.val \notin {0, 1} THEN bad
        ELSE CASE variant.val = 0 ->
                    LET a == TakeU16(bytes, opcode.next)
                        n == TakeU16(bytes, a.next)
                        d == TakeOptionSlice(bytes, n.next)
                    IN  IF a.ok /\ n.ok /\ d.ok
                        THEN good([LegacyNoReq EXCEPT
                                       !.kind = "I2c", !.opcode = opcode.val,
                                       !.address = a.val, !.size = Some(n.val),
                                       !.data = d.val])
                        ELSE bad
               [] variant.val = 1 ->
                    LET n == TakeOptionU16(bytes, opcode.next)
                        d == TakeOptionSlice(bytes, n.next)
                    IN  IF n.ok /\ d.ok
                        THEN good([LegacyNoReq EXCEPT
                                       !.kind = "Spi", !.opcode = opcode.val,
                                       !.size = n.val, !.data = d.val])
                        ELSE bad
               [] variant.val = 2 ->
                    LET p == TakeU8(bytes, opcode.next)
                        st == TakeOptionState(bytes, p.next)
                    IN  IF p.ok /\ st.ok
                        THEN good([LegacyNoReq EXCEPT
                                       !.kind = "Gpio", !.opcode = opcode.val,
                                       !.pin = p.val, !.state = st.val])
                        ELSE bad
               [] OTHER -> bad

\* enum Response { InvalidRequest, I2c, Spi, Gpio }; status is the index of
\* Status { Success, Fail }.
InvalidRequest ==
    [kind |-> "InvalidRequest", status |-> 0, address |-> None, size |-> None,
     data |-> NoneBytes, pin |-> 0, state |-> NoneState]

LegacyEncodeResponse(r) ==
    CASE r.kind = "I2c" ->
           <<1, r.status>> \o EncodeOptionU16(r.address) \o EncodeOptionU16(r.size)
             \o EncodeOptionSlice(r.data)
      [] r.kind = "Spi" ->
           <<2, r.status>> \o EncodeOptionU16(r.size) \o EncodeOptionSlice(r.data)
      [] r.kind = "Gpio" ->
           <<3, r.status, r.pin>> \o EncodeOptionState(r.state)
      [] r.kind = "SetConfig" -> <<LegacySetConfigResponseIndex, r.status>>
      [] OTHER -> <<0>>

\* from_bytes::<Response>
LegacyDecodeResponse(bytes) ==
    LET bad == [ok |-> FALSE, resp |-> InvalidRequest]
        good(r) == [ok |-> TRUE, resp |-> r]
        variant == TakeLen(bytes, 1)
        status == TakeLen(bytes, variant.next)
    IN  IF ~variant.ok THEN bad
        ELSE IF variant.val = 0 THEN good(InvalidRequest)
        ELSE IF ~status.ok \/ status.val \notin {0, 1} THEN bad
        ELSE CASE variant.val = 1 ->
                    LET a == TakeOptionU16(bytes, status.next)
                        n == TakeOptionU16(bytes, a.next)
                        d == TakeOptionSlice(bytes, n.next)
                    IN  IF a.ok /\ n.ok /\ d.ok
                        THEN good([InvalidRequest EXCEPT
                                       !.kind = "I2c", !.status = status.val,
                                       !.address = a.val, !.size = n.val,
                                       !.data = d.val])
                        ELSE bad
               [] variant.val = 2 ->
                    LET n == TakeOptionU16(bytes, status.next)
                        d == TakeOptionSlice(bytes, n.next)
                    IN  IF n.ok /\ d.ok
                        THEN good([InvalidRequest EXCEPT
                                       !.kind = "Spi", !.status = status.val,
                                       !.size = n.val, !.data = d.val])
                        ELSE bad
               [] variant.val = 3 ->
                    LET p == TakeU8(bytes, status.next)
                        st == TakeOptionState(bytes, p.next)
                    IN  IF p.ok /\ st.ok
                        THEN good([InvalidRequest EXCEPT
                                       !.kind = "Gpio", !.status = status.val,
                                       !.pin = p.val, !.state = st.val])
                        ELSE bad
               [] variant.val = LegacySetConfigResponseIndex ->
                    good([InvalidRequest EXCEPT !.kind = "SetConfig",
                                                !.status = status.val])
               [] OTHER -> bad

\* ------------------------------------------------ legacy firmware: gallo_task
\* The match on the decoded request in gallo_task: the response it prepares
\* and what it does to the buses and pins.
gallo_task_match(request, busOk) ==
    LET size == request.size.val
        ok(kind) == [InvalidRequest EXCEPT !.kind = kind]
    IN  CASE request.kind = "SetConfig" ->
               \* gallo.i2c.set_config(..), then gallo.spi.set_config(..)
               \* whatever the first returned, then the result of the first.
               [Outcome(IF busOk THEN ok("SetConfig") ELSE InvalidRequest,
                        buf, gpios, line, i2cPtr,
                        [op |-> "i2c_set_config", address |-> 0, len |-> 0,
                         ok |-> busOk, bytes |-> <<>>], FALSE)
                   EXCEPT !.cfg =
                       [request.config EXCEPT
                            !.i2c_frequency =
                                IF busOk THEN request.config.i2c_frequency
                                ELSE busConfig.i2c_frequency]]
          [] request.kind = "I2c" /\ request.opcode = 0 ->
               LET op == [op |-> "i2c_read", address |-> request.address,
                          len |-> Len(buf), ok |-> busOk, bytes |-> <<>>]
                   b2 == IF busOk THEN I2cStubData(i2cPtr, Len(buf)) ELSE buf
               IN  IF ~busOk
                   THEN Outcome(InvalidRequest, b2, gpios, line, i2cPtr, op, FALSE)
                   ELSE IF size > Len(buf)
                   THEN Outcome(InvalidRequest, b2, gpios, line, i2cPtr, op, TRUE)
                   ELSE Outcome([ok("I2c") EXCEPT
                                     !.address = Some(request.address),
                                     !.size = Some(size),
                                     !.data = Some(SubSeq(b2, 1, size))],
                                b2, gpios, line, i2cPtr, op, FALSE)
          [] request.kind = "I2c" /\ request.opcode = 1 ->
               IF ~request.data.some THEN Unchanged(InvalidRequest)
               ELSE LET d == request.data.val
                        op == [op |-> "i2c_write", address |-> request.address,
                               len |-> Len(d), ok |-> busOk, bytes |-> d]
                        p2 == IF busOk /\ d # <<>> THEN d[1] ELSE i2cPtr
                    IN  Outcome(IF busOk
                                THEN [ok("I2c") EXCEPT
                                          !.address = Some(request.address)]
                                ELSE InvalidRequest,
                                buf, gpios, line, p2, op, FALSE)
          [] request.kind = "Spi" /\ request.opcode = 0 ->
               IF request.size.some
               THEN IF size > Len(buf) THEN Panic
                    ELSE LET op == [op |-> IF request.data.some
                                           THEN "spi_transfer" ELSE "spi_read",
                                    address |-> 0, len |-> size, ok |-> busOk,
                                    bytes |-> IF request.data.some
                                              THEN request.data.val ELSE <<>>]
                             b2 == IF busOk
                                   THEN FillPrefix(buf, SpiStubData(size))
                                   ELSE buf
                         IN  Outcome(IF busOk
                                     THEN [ok("Spi") EXCEPT
                                               !.size = request.size,
                                               !.data = Some(SubSeq(b2, 1, size))]
                                     ELSE InvalidRequest,
                                     b2, gpios, line, i2cPtr, op, FALSE)
               ELSE IF request.data.some
               THEN LET op == [op |-> "spi_write", address |-> 0,
                               len |-> Len(request.data.val), ok |-> busOk,
                               bytes |-> request.data.val]
                    IN  Outcome(IF busOk THEN ok("Spi") ELSE InvalidRequest,
                                buf, gpios, line, i2cPtr, op, FALSE)
               ELSE Unchanged(InvalidRequest)
          [] request.kind = "Spi" /\ request.opcode = 1 ->
               LET op == [op |-> "spi_flush", address |-> 0, len |-> 0,
                          ok |-> busOk, bytes |-> <<>>]
               IN  Outcome(IF busOk THEN ok("Spi") ELSE InvalidRequest,
                           buf, gpios, line, i2cPtr, op, FALSE)
          [] request.kind = "Gpio" /\ request.opcode = 0 ->
               IF request.pin \notin Pins THEN Panic
               ELSE Outcome([ok("Gpio") EXCEPT
                                 !.pin = request.pin,
                                 !.state = Some(line[request.pin])],
                            buf, [gpios EXCEPT ![request.pin].dir = "in"],
                            line, i2cPtr, NoBusOp, FALSE)
          [] request.kind = "Gpio" /\ request.opcode = 1 ->
               IF ~request.state.some THEN Unchanged(InvalidRequest)
               ELSE IF request.pin \notin Pins THEN Panic
               ELSE Outcome([ok("Gpio") EXCEPT !.pin = request.pin],
                            buf,
                            [gpios EXCEPT ![request.pin] =
                                 [dir |-> "out", level |-> request.state.val]],
                            [line EXCEPT ![request.pin] = request.state.val],
                            i2cPtr, NoBusOp, FALSE)
          [] OTHER -> Unchanged(InvalidRequest)

\* gallo.wait_for_connection(): both endpoints are enabled.
wait_for_connection ==
    /\ fw = "legacy" /\ pc = "WaitingForConnection" /\ enabled
    /\ pc' = "AwaitingFrame"
    /\ UNCHANGED <<aux, fw, profile, enabled, outq, inq, cur, resp, buf, gpios,
                   line, i2cPtr, sent, calls, result, busOp, handled,
                   inProgress, wlog, pipelined, edge>>

\* gallo.read_data() returns a frame and from_bytes decodes it; a frame that
\* does not decode takes the break out of the inner loop.
read_data ==
    /\ fw = "legacy" /\ pc = "AwaitingFrame" /\ enabled /\ outq # <<>>
    /\ cur' = Head(outq)
    /\ outq' = Tail(outq)
    /\ busOp' = NoBusOp
    /\ handled' = 0
    /\ IF LegacyDecodeRequest(Head(outq).body).ok
       THEN /\ pc' = "Dispatching"
            /\ inProgress' = inProgress \cup {Head(outq).seq}
       ELSE /\ pc' = "WaitingForConnection"
            /\ UNCHANGED inProgress
    /\ UNCHANGED <<aux, fw, profile, enabled, inq, resp, buf, gpios, line, i2cPtr,
                   sent, calls, result, wlog, pipelined, edge>>

\* gallo.read_data() fails: the response is prepared but the check of the
\* read's result before the write takes the break.
read_data_err ==
    /\ fw = "legacy" /\ pc = "AwaitingFrame" /\ ~enabled
    /\ resp' = [key |-> "legacy", seq |-> 0,
                body |-> LegacyEncodeResponse(InvalidRequest)]
    /\ pc' = "WaitingForConnection"
    /\ UNCHANGED <<aux, fw, profile, enabled, outq, inq, cur, buf, gpios, line,
                   i2cPtr, sent, calls, result, busOp, handled, inProgress,
                   wlog, pipelined, edge>>

\* The match runs to its response, which to_slice serializes into tx_buf.
gallo_task_handle ==
    /\ fw = "legacy" /\ pc = "Dispatching"
    /\ handled' = handled + 1
    /\ \E busOk \in BOOLEAN :
         LET o == gallo_task_match(LegacyDecodeRequest(cur.body).req, busOk)
         IN  /\ buf' = o.buf
             /\ gpios' = o.gpios
             /\ line' = o.line
             /\ i2cPtr' = o.ptr
             /\ busOp' = o.bus
             /\ busConfig' = o.cfg
             /\ IF o.panic
                THEN /\ pc' = "Panicked"
                     /\ inProgress' = inProgress \ {cur.seq}
                     /\ UNCHANGED resp
                ELSE /\ pc' = "Responding"
                     /\ resp' = [key |-> "legacy", seq |-> cur.seq,
                                 body |-> LegacyEncodeResponse(o.resp)]
                     /\ UNCHANGED inProgress
    /\ UNCHANGED <<hostAux, fw, profile, enabled, outq, inq, cur, sent, calls,
                   result, wlog, pipelined, edge>>

\* gallo.write_data(): the response goes to the IN endpoint; a failed write
\* takes the break.
write_data ==
    /\ fw = "legacy" /\ pc = "Responding"
    /\ inProgress' = inProgress \ {cur.seq}
    /\ IF enabled
       THEN /\ inq' = Append(inq, resp)
            /\ wlog' = [prev |-> wlog.id, id |-> resp.seq, latest |-> sent]
            /\ pc' = "AwaitingFrame"
       ELSE /\ pc' = "WaitingForConnection"
            /\ UNCHANGED <<inq, wlog>>
    /\ UNCHANGED <<aux, fw, profile, enabled, outq, cur, resp, buf, gpios, line,
                   i2cPtr, sent, calls, result, busOp, handled, pipelined,
                   edge>>

\* ------------------------------------------------------------ host client
\* The addresses of the I2C devices the host talks to.
I2cAddresses == {72}

\* The calls the host makes: PicoDeGallo::ping, i2c_read, i2c_write,
\* spi_read, spi_write, spi_flush, gpio_get, gpio_put, gpio_wait_for_*.
\* 0, 128 (the first two-byte varint), 2^16, 2^31 and u32::MAX.
PingValues ==
    {U32(0, 0), U32(0, 128), U32(1, 0), U32(32768, 0), U32(U16_MAX, U16_MAX)}
ReadCounts == {2, BUFFER_SIZE, BUFFER_SIZE + 1}
CallPins == {0, NUM_GPIOS}

PingRequests == {[NoReq EXCEPT !.ep = "ping", !.value = v] : v \in PingValues}

I2cRequests ==
    {[NoReq EXCEPT !.ep = "i2c/read", !.address = a, !.count = c] :
         a \in I2cAddresses, c \in ReadCounts}
    \cup {[NoReq EXCEPT !.ep = "i2c/write", !.address = a,
                        !.contents = <<15>>] : a \in I2cAddresses}

SpiRequests ==
    {[NoReq EXCEPT !.ep = "spi/read", !.count = c] : c \in ReadCounts}
    \cup {[NoReq EXCEPT !.ep = "spi/write", !.contents = <<1, 2>>]}
    \cup {[NoReq EXCEPT !.ep = "spi/flush"]}

GpioRequests ==
    {[NoReq EXCEPT !.ep = "gpio/get", !.pin = p] : p \in CallPins}
    \cup {[NoReq EXCEPT !.ep = "gpio/put", !.pin = 0, !.state = s] :
              s \in {"Low", "High"}}

WaitRequests == {[NoReq EXCEPT !.ep = e, !.pin = 0] : e \in GpioWaitEndpoints}

\* The configurations the host asks for: fast mode with SPI mode 3 at 2 MHz,
\* and the defaults again.
Configs ==
    {[i2c_frequency |-> U32(6, 6784), spi_frequency |-> U32(30, 33920),
      spi_phase |-> 1, spi_polarity |-> 1],
     DefaultConfig}

ConfigRequests == {[NoReq EXCEPT !.ep = "set-config", !.config = c] : c \in Configs}

\* The writes the host asks for: the ends of the u8 address range and the
\* first address with the top bit set, contents around the one-byte / two-byte
\* length boundary, with bytes that have the top bit set.
WriteAddresses == {0, 128, 255}
WriteContents ==
    {<<>>, <<0, 128, 255>>,
     [i \in 1 .. 127 |-> (i * 7) % 256],
     [i \in 1 .. 128 |-> 255 - i]}

I2cWriteRequests ==
    {[NoReq EXCEPT !.ep = "i2c/write", !.address = a, !.contents = c] :
         a \in WriteAddresses, c \in WriteContents}

\* A host that reconfigures the buses and uses every other endpoint as well.
MixedRequests ==
    {[NoReq EXCEPT !.ep = "set-config", !.config = c] :
         c \in Configs \ {DefaultConfig}}
    \cup {[NoReq EXCEPT !.ep = "ping", !.value = U32(0, 128)],
          [NoReq EXCEPT !.ep = "version"],
          [NoReq EXCEPT !.ep = "i2c/read", !.address = 72, !.count = 2],
          [NoReq EXCEPT !.ep = "i2c/read", !.address = 72,
                        !.count = BUFFER_SIZE + 1],
          [NoReq EXCEPT !.ep = "i2c/write", !.address = 72, !.contents = <<15>>],
          [NoReq EXCEPT !.ep = "spi/read", !.count = 2],
          [NoReq EXCEPT !.ep = "spi/write", !.contents = <<1, 2>>],
          [NoReq EXCEPT !.ep = "spi/flush"],
          [NoReq EXCEPT !.ep = "gpio/get", !.pin = 0],
          [NoReq EXCEPT !.ep = "gpio/put", !.pin = 0, !.state = "High"]}

HostRequests ==
    CASE profile = "ping" -> PingRequests
      [] profile = "mixed" -> MixedRequests
      [] profile = "codec" -> I2cWriteRequests
      [] profile = "config" -> ConfigRequests
      [] profile = "i2c" -> I2cRequests
      [] profile = "spi" -> SpiRequests
      [] profile = "gpio" -> GpioRequests
      [] profile = "wait" -> WaitRequests
      [] OTHER -> {}

\* HostClient::send_resp, first half: the request is encoded and sent with
\* the next sequence number.
HostSend(req) ==
    /\ fw = "rpc" /\ enabled
    /\ sent < MaxReqs
    /\ sent' = sent + 1
    /\ calls' = Append(calls, [id |-> sent + 1, req |-> req])
    /\ outq' = Append(outq, [key |-> req.ep, seq |-> sent + 1,
                             body |-> EncodeRequest(req)])
    /\ edge' = IF req.ep \in GpioWaitEndpoints
               THEN [id |-> sent + 1, levels |-> <<line[req.pin]>>]
               ELSE edge
    /\ pipelined' = (pipelined \/ calls # <<>>)
    /\ UNCHANGED <<fw, profile, enabled, pc, inq, cur, resp, buf, gpios, line,
                   i2cPtr, result, busOp, handled, inProgress, wlog>>

\* A call made on the client directly, as the examples of the library do.
HostCall(req) ==
    /\ HostSend(req)
    /\ UNCHANGED aux

\* A client whose flatten hands the failure marker to the wrong channel.
HostOutcomeCrossed(call, frame) ==
    LET base == [NoResult EXCEPT !.id = call.id, !.req = call.req]
        d == DecodeResponse(call.req.ep, frame.body)
    IN  IF frame.key # "error" /\ d.ok /\ d.resp.tag # "Err"
        THEN [base EXCEPT !.outcome = "Ok", !.data = d.resp.data,
                          !.value = d.resp.value, !.state = d.resp.state]
        ELSE [base EXCEPT !.outcome = "Comms", !.wire = "BadResponse"]

\* FlattenErr::flatten and the ? on HostErr: what the caller gets for a frame.
HostOutcome(call, frame) ==
    LET base == [NoResult EXCEPT !.id = call.id, !.req = call.req]
        d == DecodeResponse(call.req.ep, frame.body)
    IN  IF frame.key = "error"
        THEN [base EXCEPT !.outcome = "Comms",
                          !.wire = WireErrorName(frame.body[1])]
        ELSE IF ~d.ok
        THEN [base EXCEPT !.outcome = "Comms", !.wire = "BadResponse"]
        ELSE IF d.resp.tag = "Err"
        THEN [base EXCEPT !.outcome = "Endpoint"]
        ELSE [base EXCEPT !.outcome = "Ok", !.data = d.resp.data,
                          !.value = d.resp.value, !.state = d.resp.state]

CallIndex(seq) ==
    IF \E i \in DOMAIN calls : calls[i].id = seq
    THEN CHOOSE i \in DOMAIN calls : calls[i].id = seq
    ELSE 0

RemoveAt(q, i) == SubSeq(q, 1, i - 1) \o SubSeq(q, i + 1, Len(q))

\* HostClient::send_resp, second half: a frame arrives and completes the call
\* with its sequence number; a frame that matches no outstanding call is
\* dropped.
HostReceive ==
    /\ fw = "rpc" /\ inq # <<>>
    /\ inq' = Tail(inq)
    /\ LET f == Head(inq)
           i == CallIndex(f.seq)
       IN  IF i = 0 \/ (f.key # "error" /\ f.key # calls[i].req.ep)
           THEN UNCHANGED <<calls, result>>
           ELSE /\ result' = HostOutcome(calls[i], f)
                /\ calls' = RemoveAt(calls, i)
    /\ UNCHANGED <<aux, fw, profile, enabled, pc, outq, cur, resp, buf, gpios, line, i2cPtr,
                   sent, busOp, handled, inProgress, wlog, pipelined, edge>>

\* ------------------------------------------------------ legacy host library
\* UsbIo::i2c_blocking_read, i2c_blocking_write, spi_blocking_flush: the
\* requests they build.
LegacyGpioRequests ==
    {[LegacyNoReq EXCEPT !.kind = "Gpio", !.opcode = 0, !.pin = p] :
         p \in CallPins}
    \cup {[LegacyNoReq EXCEPT !.kind = "Gpio", !.opcode = 1, !.pin = 0,
                              !.state = Some(st)] : st \in {"Low", "High"}}

\* Reads and transfers of a few bytes, of all of bus_buf and of one byte more.
LegacyBusSizes == {2, BUS_BUFFER_SIZE, BUS_BUFFER_SIZE + 1}
LegacyBusRequests ==
    {[LegacyNoReq EXCEPT !.kind = "I2c", !.opcode = 0, !.address = a,
                         !.size = Some(n)] :
         a \in I2cAddresses, n \in LegacyBusSizes \ {BUS_BUFFER_SIZE}}
    \cup {[LegacyNoReq EXCEPT !.kind = "Spi", !.opcode = 0, !.size = Some(n)] :
              n \in LegacyBusSizes}
    \cup {[LegacyNoReq EXCEPT !.kind = "Spi", !.opcode = 0, !.size = Some(n),
                              !.data = Some(<<1, 2>>)] :
              n \in {2, BUS_BUFFER_SIZE + 1}}

LegacyRequests ==
    IF profile = "config"
    THEN {[LegacyNoReq EXCEPT !.kind = "SetConfig", !.config = c] : c \in Configs}
    ELSE IF profile = "gpio" THEN LegacyGpioRequests
    ELSE IF profile = "bus" THEN LegacyBusRequests
    ELSE IF profile = "mixed"
    THEN {[LegacyNoReq EXCEPT !.kind = "SetConfig", !.config = c] :
              c \in Configs \ {DefaultConfig}}
         \cup {[LegacyNoReq EXCEPT !.kind = "Gpio", !.opcode = 0, !.pin = 0],
               [LegacyNoReq EXCEPT !.kind = "Gpio", !.opcode = 1, !.pin = 0,
                                   !.state = Some("High")],
               [LegacyNoReq EXCEPT !.kind = "I2c", !.opcode = 0, !.address = 72,
                                   !.size = Some(2)],
               [LegacyNoReq EXCEPT !.kind = "I2c", !.opcode = 1, !.address = 72,
                                   !.size = Some(1), !.data = Some(<<15>>)],
               [LegacyNoReq EXCEPT !.kind = "Spi", !.opcode = 0, !.size = Some(2)],
               [LegacyNoReq EXCEPT !.kind = "Spi", !.opcode = 1]}
    ELSE
    {[LegacyNoReq EXCEPT !.kind = "I2c", !.opcode = 0, !.address = a,
                         !.size = Some(2)] : a \in I2cAddresses}
    \cup {[LegacyNoReq EXCEPT !.kind = "I2c", !.opcode = 1, !.address = a,
                              !.size = Some(1), !.data = Some(<<15>>)] :
              a \in I2cAddresses}
    \cup {[LegacyNoReq EXCEPT !.kind = "Spi", !.opcode = 1]}

\* Frames that are no serialized Request: an unknown variant, a request cut
\* short.
MalformedFrames == {<<9>>, <<0, 0>>}

\* The library writes the request and blocks on the read of the response.
LegacyHostCall(req) ==
    /\ fw = "legacy" /\ enabled /\ calls = <<>>
    /\ sent < MaxReqs
    /\ sent' = sent + 1
    /\ calls' = <<[id |-> sent + 1, req |-> req]>>
    /\ outq' = Append(outq, [key |-> "legacy", seq |-> sent + 1,
                             body |-> LegacyEncodeRequest(req)])
    /\ pipelined' = (pipelined \/ outq # <<>> \/ pc \in {"Dispatching", "Responding"})
    /\ UNCHANGED <<aux, fw, profile, enabled, pc, inq, cur, resp, buf, gpios, line,
                   i2cPtr, result, busOp, handled, inProgress, wlog, edge>>

\* A host program other than the library writes a frame to the OUT endpoint.
LegacyHostSend(bytes) ==
    /\ fw = "legacy" /\ enabled
    /\ sent < MaxReqs
    /\ sent' = sent + 1
    /\ outq' = Append(outq, [key |-> "legacy", seq |-> sent + 1, body |-> bytes])
    /\ pipelined' = (pipelined \/ calls # <<>> \/ outq # <<>>
                       \/ pc \in {"Dispatching", "Responding"})
    /\ UNCHANGED <<aux, fw, profile, enabled, pc, inq, cur, resp, buf, gpios, line,
                   i2cPtr, calls, result, busOp, handled, inProgress, wlog,
                   edge>>

\* What the library call returns for the frame it read.
LegacyHostOutcome(call, frame) ==
    LET base == [NoResult EXCEPT !.id = call.id, !.req = call.req]
        d == LegacyDecodeResponse(frame.body)
        r == d.resp
    IN  IF ~d.ok \/ r.kind # call.req.kind \/ r.status # 0
        THEN [base EXCEPT !.outcome = "Unknown"]
        ELSE IF call.req.kind = "I2c" /\ call.req.opcode = 0
        THEN IF ~r.data.some THEN [base EXCEPT !.outcome = "Unknown"]
             ELSE IF Len(r.data.val) # call.req.size.val
             THEN [base EXCEPT !.outcome = "Panic"]
             ELSE [base EXCEPT !.outcome = "Ok", !.data = r.data.val]
        ELSE [base EXCEPT !.outcome = "Ok"]

\* The blocked read returns the next frame on the IN endpoint.
LegacyHostReceive ==
    /\ fw = "legacy" /\ inq # <<>> /\ calls # <<>>
    /\ inq' = Tail(inq)
    /\ result' = LegacyHostOutcome(Head(calls), Head(inq))
    /\ calls' = Tail(calls)
    /\ UNCHANGED <<aux, fw, profile, enabled, pc, outq, cur, resp, buf, gpios, line,
                   i2cPtr, sent, busOp, handled, inProgress, wlog, pipelined,
                   edge>>

\* ------------------------------------------- firmware/src/gpio.rs: Gpio::run
\* The GPIO task of the per-interface firmware, with its own pair of bulk
\* endpoints. buf is its rx_buf.
GPIO_USB_BUFFER_SIZE == 16

\* struct Request { opcode, pin, data } and struct Response { status, pin,
\* data } of gpio.rs; Status::Other is variant 1.
GpioTaskEncodeRequest(r) == <<r.opcode, r.pin>> \o EncodeOptionState(r.state)

GpioTaskDecodeRequest(bytes) ==
    LET opcode == TakeLen(bytes, 1)
        p == TakeU8(bytes, opcode.next)
        st == TakeOptionState(bytes, p.next)
    IN  IF opcode.ok /\ opcode.val \in {0, 1} /\ p.ok /\ st.ok
        THEN [ok |-> TRUE,
              req |-> [LegacyNoReq EXCEPT !.kind = "Gpio", !.opcode = opcode.val,
                                          !.pin = p.val, !.state = st.val]]
        ELSE [ok |-> FALSE, req |-> LegacyNoReq]

GpioTaskEncodeResponse(r) == <<r.status, r.pin>> \o EncodeOptionState(r.state)

GpioTaskDecodeResponse(bytes) ==
    LET status == TakeLen(bytes, 1)
        p == TakeU8(bytes, status.next)
        st == TakeOptionState(bytes, p.next)
    IN  IF status.ok /\ status.val \in {0, 1} /\ p.ok /\ st.ok
        THEN [ok |-> TRUE,
              resp |-> [InvalidRequest EXCEPT !.kind = "Gpio",
                                              !.status = status.val,
                                              !.pin = p.val, !.state = st.val]]
        ELSE [ok |-> FALSE, resp |-> InvalidRequest]

\* self.read_ep.wait_enabled(). Spi::run and I2c::run begin with the same
\* step, end an iteration with the same write(..).await.ok() and leave the
\* inner loop on the same read error, so the SPI and I2C tasks run through
\* gpio_run_wait_enabled, gpio_run_read_err and gpio_run_write as well.
gpio_run_wait_enabled ==
    /\ fw = "perbus" /\ pc = "WaitingForConnection" /\ enabled
    /\ pc' = "AwaitingFrame"
    /\ UNCHANGED <<aux, fw, profile, enabled, outq, inq, cur, resp, buf, gpios,
                   line, i2cPtr, sent, calls, result, busOp, handled,
                   inProgress, wlog, pipelined, edge>>

\* self.read_ep.read(&mut self.rx_buf) returns Ok: the packet overwrites the
\* head of rx_buf and the rest keeps what earlier packets left.
gpio_run_read ==
    /\ fw = "perbus" /\ profile = "gpio" /\ pc = "AwaitingFrame" /\ enabled /\ outq # <<>>
    /\ cur' = Head(outq)
    /\ outq' = Tail(outq)
    /\ buf' = FillPrefix(buf, Head(outq).body)
    /\ pc' = "Dispatching"
    /\ handled' = 0
    /\ inProgress' = inProgress \cup {Head(outq).seq}
    /\ UNCHANGED <<aux, fw, profile, enabled, inq, resp, gpios, line, i2cPtr,
                   sent, calls, result, busOp, wlog, pipelined, edge>>

\* The read fails: break, back to wait_enabled.
gpio_run_read_err ==
    /\ fw = "perbus" /\ pc = "AwaitingFrame" /\ ~enabled
    /\ pc' = "WaitingForConnection"
    /\ UNCHANGED <<aux, fw, profile, enabled, outq, inq, cur, resp, buf, gpios,
                   line, i2cPtr, sent, calls, result, busOp, handled,
                   inProgress, wlog, pipelined, edge>>

\* The match on request.opcode. GetState reads the level and SetState sets
\* the output level of the Flex pin; neither changes the pin's direction, so
\* a level that is set is not driven onto the line of a pin that is off.
gpio_run_match(d) ==
    LET other == [InvalidRequest EXCEPT !.kind = "Gpio", !.status = 1]
        success == [InvalidRequest EXCEPT !.kind = "Gpio", !.pin = d.req.pin]
    IN  IF ~d.ok THEN Unchanged(other)
        ELSE IF d.req.opcode = 0
        THEN IF d.req.pin \notin Pins THEN Panic
             ELSE Unchanged([success EXCEPT !.state = Some(line[d.req.pin])])
        ELSE IF ~d.req.state.some \/ d.req.pin \notin Pins THEN Panic
        ELSE Outcome(success, buf,
                     [gpios EXCEPT ![d.req.pin].level = d.req.state.val],
                     IF gpios[d.req.pin].dir = "out"
                     THEN [line EXCEPT ![d.req.pin] = d.req.state.val]
                     ELSE line,
                     i2cPtr, NoBusOp, FALSE)

gpio_run_handle ==
    /\ fw = "perbus" /\ profile = "gpio" /\ pc = "Dispatching"
    /\ handled' = handled + 1
    /\ LET o == gpio_run_match(GpioTaskDecodeRequest(buf))
       IN  /\ gpios' = o.gpios
           /\ line' = o.line
           /\ IF o.panic
              THEN /\ pc' = "Panicked"
                   /\ inProgress' = inProgress \ {cur.seq}
                   /\ UNCHANGED resp
              ELSE /\ pc' = "Responding"
                   /\ resp' = [key |-> "gpio", seq |-> cur.seq,
                               body |-> GpioTaskEncodeResponse(o.resp)]
                   /\ UNCHANGED inProgress
    /\ UNCHANGED <<aux, fw, profile, enabled, outq, inq, cur, buf, i2cPtr, sent,
                   calls, result, busOp, wlog, pipelined, edge>>

\* self.write_ep.write(&output).await.ok(): a failed write is ignored.
gpio_run_write ==
    /\ fw = "perbus" /\ pc = "Responding"
    /\ pc' = "AwaitingFrame"
    /\ inProgress' = inProgress \ {resp.seq}
    /\ IF enabled
       THEN /\ inq' = Append(inq, resp)
            /\ wlog' = [prev |-> wlog.id, id |-> resp.seq, latest |-> sent]
       ELSE UNCHANGED <<inq, wlog>>
    /\ UNCHANGED <<aux, fw, profile, enabled, outq, cur, resp, buf, gpios, line,
                   i2cPtr, sent, calls, result, busOp, handled, pipelined,
                   edge>>

\* A host program writes a request to the GPIO endpoint and reads the
\* response.
GpioTaskHostCall(req) ==
    /\ fw = "perbus" /\ enabled /\ calls = <<>>
    /\ sent < MaxReqs
    /\ sent' = sent + 1
    /\ calls' = <<[id |-> sent + 1, req |-> req]>>
    /\ outq' = Append(outq, [key |-> "gpio", seq |-> sent + 1,
                             body |-> GpioTaskEncodeRequest(req)])
    /\ UNCHANGED <<aux, fw, profile, enabled, pc, inq, cur, resp, buf, gpios,
                   line, i2cPtr, result, busOp, handled, inProgress, wlog,
                   pipelined, edge>>

GpioTaskHostReceive ==
    /\ fw = "perbus" /\ inq # <<>> /\ calls # <<>>
    /\ inq' = Tail(inq)
    /\ LET d == GpioTaskDecodeResponse(Head(inq).body)
           base == [NoResult EXCEPT !.id = Head(calls).id,
                                    !.req = Head(calls).req]
       IN  result' = IF d.ok /\ d.resp.status = 0
                     THEN [base EXCEPT !.outcome = "Ok",
                                       !.state = d.resp.state.val]
                     ELSE [base EXCEPT !.outcome = "Unknown"]
    /\ calls' = Tail(calls)
    /\ UNCHANGED <<aux, fw, profile, enabled, pc, outq, cur, resp, buf, gpios,
                   line, i2cPtr, sent, busOp, handled, inProgress, wlog,
                   pipelined, edge>>

\* A host program that writes raw frames to the GPIO endpoint: SetState of
\* pin 0 to High, GetState of pin 0, and the two cut short after the pin.
GpioTaskFrames == {<<1, 0, 1, 1>>, <<0, 0, 0>>, <<1, 0>>, <<0, 0>>}

GpioTaskHostSend(bytes) ==
    /\ fw = "perbus" /\ profile = "gpio" /\ enabled /\ calls = <<>>
    /\ sent < MaxReqs
    /\ sent' = sent + 1
    /\ calls' = <<[id |-> sent + 1, req |-> GpioTaskDecodeRequest(bytes).req]>>
    /\ outq' = Append(outq, [key |-> "gpio", seq |-> sent + 1, body |-> bytes])
    /\ UNCHANGED <<aux, fw, profile, enabled, pc, inq, cur, resp, buf, gpios,
                   line, i2cPtr, result, busOp, handled, inProgress, wlog,
                   pipelined, edge>>

\* --------------------------------------------- firmware/src/spi.rs: Spi::run
\* The SPI task of the per-interface firmware. buf is the array data that
\* every iteration of the inner loop starts from zeroes; a frame is the raw
\* bytes opcode, size (u16, little endian), payload.
SPI_DATA_SIZE == 512
SPI_READ_LIMIT == 509

\* impl From<u8> for Opcode
SpiOpcodeFrom(value) ==
    CASE value = 0 -> "Read"
      [] value = 1 -> "Write"
      [] OTHER -> "Invalid"

\* b[lo..hi] = data, in the 1-based positions lo .. hi of b.
FillRange(b, lo, hi, data) ==
    [i \in 1 .. Len(b) |-> IF lo <= i /\ i <= hi THEN data[i - lo + 1] ELSE b[i]]

\* self.read_ep.read(&mut data[..509]) returns Ok.
spi_run_read ==
    /\ fw = "perbus" /\ profile = "spi" /\ pc = "AwaitingFrame"
    /\ enabled /\ outq # <<>>
    /\ Len(Head(outq).body) <= SPI_READ_LIMIT
    /\ cur' = Head(outq)
    /\ outq' = Tail(outq)
    /\ buf' = FillPrefix([i \in 1 .. SPI_DATA_SIZE |-> 0], Head(outq).body)
    /\ pc' = "Dispatching"
    /\ handled' = 0
    /\ busOp' = NoBusOp
    /\ inProgress' = inProgress \cup {Head(outq).seq}
    /\ UNCHANGED <<aux, fw, profile, enabled, inq, resp, gpios, line, i2cPtr,
                   sent, calls, result, wlog, pipelined, edge>>

\* The match on opcode. A range of data that ends after its last element
\* panics; the response is the bytes handed to write_ep.write.
spi_run_match(data, busOk) ==
    LET opcode == SpiOpcodeFrom(data[1])
        size == data[2] + 256 * data[3]
        bus(name, n, w) == [op |-> name, address |-> 0, len |-> n, ok |-> busOk,
                            bytes |-> w]
        status(d) == [d EXCEPT ![1] = IF busOk THEN 0 ELSE 255]
        reply(d, op) ==
            Outcome(SubSeq(status(d), 1, IF busOk THEN size + 3 ELSE 3),
                    status(d), gpios, line, i2cPtr, op, FALSE)
    IN  CASE opcode = "Read" ->
               IF size + 4 > Len(data) THEN Panic
               ELSE reply(IF busOk
                          THEN FillRange(data, 5, size + 4, SpiStubData(size))
                          ELSE data,
                          bus("spi_read", size, <<>>))
          [] opcode = "Write" ->
               IF size + 3 > Len(data) THEN Panic
               ELSE Outcome(SubSeq(status(data), 1, 3), status(data), gpios,
                            line, i2cPtr,
                            bus("spi_write", size, SubSeq(data, 4, size + 3)),
                            FALSE)
          [] opcode = "Transfer" ->
               IF size + 3 > Len(data) THEN Panic
               ELSE LET read == IF busOk THEN SpiStubData(Len(data))
                                ELSE [i \in 1 .. Len(data) |->
                                        IF i \in {2, 3} THEN data[i] ELSE 0]
                        op == bus("spi_transfer", Len(data),
                                  SubSeq(data, 4, size + 3))
                    IN  Outcome(SubSeq(status(read), 1,
                                       IF busOk THEN size + 3 ELSE 3),
                                data, gpios, line, i2cPtr, op, FALSE)
          [] opcode = "TransferInPlace" ->
               IF size + 3 > Len(data) THEN Panic
               ELSE reply(IF busOk
                          THEN FillRange(data, 4, size + 3, SpiStubData(size))
                          ELSE data,
                          bus("spi_transfer_in_place", size,
                              SubSeq(data, 4, size + 3)))
          [] opcode = "Flush" ->
               Outcome(<<IF busOk THEN 0 ELSE 255>>, data, gpios, line, i2cPtr,
                       bus("spi_flush", 0, <<>>), FALSE)
          [] OTHER ->
               Outcome(SubSeq([data EXCEPT ![1] = 254], 1, 3),
                       [data EXCEPT ![1] = 254], gpios, line, i2cPtr, NoBusOp,
                       FALSE)

spi_run_handle ==
    /\ fw = "perbus" /\ profile = "spi" /\ pc = "Dispatching"
    /\ handled' = handled + 1
    /\ \E busOk \in BOOLEAN :
         LET o == spi_run_match(buf, busOk)
         IN  /\ buf' = o.buf
             /\ busOp' = o.bus
             /\ IF o.panic
                THEN /\ pc' = "Panicked"
                     /\ inProgress' = inProgress \ {cur.seq}
                     /\ UNCHANGED resp
                ELSE /\ pc' = "Responding"
                     /\ resp' = [key |-> "spi", seq |-> cur.seq,
                                 body |-> o.resp]
                     /\ UNCHANGED inProgress
    /\ UNCHANGED <<aux, fw, profile, enabled, outq, inq, cur, gpios, line,
                   i2cPtr, sent, calls, result, wlog, pipelined, edge>>

\* The frames a host program writes to the SPI endpoint: every opcode of the
\* enum and one that is none, with sizes up to and past what data holds.
SpiTaskSizes == {2, SPI_DATA_SIZE - 4, SPI_DATA_SIZE - 3, SPI_DATA_SIZE + 1}
SpiTaskFrames ==
    {<<o, n % 256, n \div 256, 165, 90>> : o \in {0, 1, 2, 3, 4, 7},
                                           n \in SpiTaskSizes}

SpiTaskHostSend(bytes) ==
    /\ fw = "perbus" /\ profile = "spi" /\ enabled
    /\ sent < MaxReqs
    /\ sent' = sent + 1
    /\ outq' = Append(outq, [key |-> "spi", seq |-> sent + 1, body |-> bytes])
    /\ UNCHANGED <<aux, fw, profile, enabled, pc, inq, cur, resp, buf, gpios,
                   line, i2cPtr, calls, result, busOp, handled, inProgress,
                   wlog, pipelined, edge>>

\* The host program reads the next frame of the IN endpoint.
SpiTaskHostReceive ==
    /\ fw = "perbus" /\ profile = "spi" /\ inq # <<>>
    /\ inq' = Tail(inq)
    /\ result' = [NoResult EXCEPT !.id = Head(inq).seq,
                                  !.outcome = IF Head(inq).body[1] = 0
                                              THEN "Ok" ELSE "Unknown",
                                  !.data = Head(inq).body]
    /\ UNCHANGED <<aux, fw, profile, enabled, pc, outq, cur, resp, buf, gpios,
                   line, i2cPtr, sent, calls, busOp, handled, inProgress, wlog,
                   pipelined, edge>>

\* ------------------------------------------------ library/src/i2c.rs: I2c
\* The I2C client of the legacy host library, against a device that answers
\* each command with a status byte, three more header bytes and, for a read
\* that succeeded, the bytes read.
StatusBytes == 0 .. 255

\* impl From<u8> for Response
I2cResponseFrom(value) ==
    CASE value = 0 -> "Success"
      [] value = 1 -> "NoAcknowledge"
      [] value = 2 -> "ArbitrationLoss"
      [] value = 3 -> "TxNotEmpty"
      [] value = 4 -> "InvalidReadBufferLength"
      [] value = 5 -> "InvalidWriteBufferLength"
      [] value = 6 -> "AddressOutOfRange"
      [] value = 7 -> "InvalidOpcode"
      [] OTHER -> "Other"

\* An into_result that lets a transmit buffer that is not empty pass.
I2cIntoResultLenient(self) ==
    CASE self \in {"Success", "TxNotEmpty"} -> [outcome |-> "Ok", wire |-> "none"]
      [] self = "NoAcknowledge" -> [outcome |-> "I2c", wire |-> "NoAcknowledge"]
      [] self = "ArbitrationLoss" -> [outcome |-> "I2c", wire |-> "ArbitrationLoss"]
      [] OTHER -> [outcome |-> "I2c", wire |-> "Other"]

\* Response::into_result; wire holds the I2cError of Error::I2c.
I2cIntoResult(self) ==
    CASE self = "Success" -> [outcome |-> "Ok", wire |-> "none"]
      [] self = "NoAcknowledge" -> [outcome |-> "I2c", wire |-> "NoAcknowledge"]
      [] self = "ArbitrationLoss" -> [outcome |-> "I2c", wire |-> "ArbitrationLoss"]
      [] OTHER -> [outcome |-> "I2c", wire |-> "Other"]

\* impl i2c::Error for Error: kind() of what a call returned.
I2cErrorKind(outcome, wire) ==
    CASE outcome = "I2c" /\ wire = "NoAcknowledge" -> "NoAcknowledge(Address)"
      [] outcome = "I2c" /\ wire = "ArbitrationLoss" -> "ArbitrationLoss"
      [] OTHER -> "Other"

\* blocking_read and blocking_write up to the read of the response: the
\* command is opcode, address and the two low bytes of the length.
I2cClientCalls ==
    {[LegacyNoReq EXCEPT !.kind = "I2c", !.opcode = 0, !.address = a,
                         !.size = Some(2)] : a \in I2cAddresses}
    \cup {[LegacyNoReq EXCEPT !.kind = "I2c", !.opcode = 1, !.address = a,
                              !.size = Some(1), !.data = Some(<<15>>)] :
              a \in I2cAddresses}

i2c_blocking_call(req) ==
    /\ fw = "host" /\ profile = "i2c" /\ enabled /\ calls = <<>>
    /\ sent < MaxReqs
    /\ sent' = sent + 1
    /\ calls' = <<[id |-> sent + 1, req |-> req]>>
    /\ outq' = Append(outq,
                      [key |-> "i2c", seq |-> sent + 1,
                       body |-> <<req.opcode, req.address, req.size.val % 256,
                                  (req.size.val \div 256) % 256>>
                                \o (IF req.data.some THEN req.data.val ELSE <<>>)])
    /\ UNCHANGED <<aux, fw, profile, enabled, pc, inq, cur, resp, buf, gpios,
                   line, i2cPtr, result, busOp, handled, inProgress, wlog,
                   pipelined, edge>>

\* The device answers the command at the head of its OUT endpoint.
I2cDeviceReply(b) ==
    /\ fw = "host" /\ profile = "i2c" /\ enabled /\ outq # <<>>
    /\ outq' = Tail(outq)
    /\ inq' = Append(inq,
                     [key |-> "i2c", seq |-> Head(outq).seq,
                      body |-> <<b, 0, 0, 0>>
                               \o (IF b = 0 /\ Head(outq).body[1] = 0
                                   THEN I2cStubData(i2cPtr, Head(outq).body[3])
                                   ELSE <<>>)])
    /\ UNCHANGED <<aux, fw, profile, enabled, pc, cur, resp, buf, gpios, line,
                   i2cPtr, sent, calls, result, busOp, handled, inProgress,
                   wlog, pipelined, edge>>

\* The rest of the call. blocking_read maps response[0] of the frame it read
\* and copies the data when there is any; blocking_write maps response[0] of
\* the zeroed array before it reads the frame.
i2c_blocking_return ==
    /\ fw = "host" /\ profile = "i2c" /\ inq # <<>> /\ calls # <<>>
    /\ inq' = Tail(inq)
    /\ calls' = <<>>
    /\ LET call == Head(calls)
           response == Head(inq).body
           size == Len(response)
           code == I2cIntoResult(I2cResponseFrom(IF call.req.opcode = 0
                                                 THEN response[1] ELSE 0))
           base == [NoResult EXCEPT !.id = call.id, !.req = call.req]
       IN  result' =
             IF code.outcome # "Ok"
             THEN [base EXCEPT !.outcome = code.outcome, !.wire = code.wire]
             ELSE IF call.req.opcode = 0 /\ size > 4
             THEN IF size - 4 # call.req.size.val
                  THEN [base EXCEPT !.outcome = "Panic"]
                  ELSE [base EXCEPT !.outcome = "Ok",
                                    !.data = SubSeq(response, 5, size)]
             ELSE [base EXCEPT !.outcome = "Ok"]
    /\ UNCHANGED <<aux, fw, profile, enabled, pc, outq, cur, resp, buf, gpios,
                   line, i2cPtr, sent, busOp, handled, inProgress, wlog,
                   pipelined, edge>>

\* ------------------------------------- pico-de-gallo-app: Cli::i2c_scan
\* The scan walks the 7-bit addresses in the order hi << 4 | lo of its two
\* loops, which is the ascending order. A probe is pg.i2c_read(address, 1),
\* taken as one step: it succeeds when a device answers at the address.
SCAN_ADDRESSES == 128

\* The I2C devices on the bus: none, one, the two ends of the regular range,
\* and devices at reserved addresses.
ScanDevices == {{}, {72}, {8, 119}, {0, 72, 120}}

ScanIdle ==
    [reserved |-> FALSE, present |-> {}, address |-> 0, table |-> <<>>,
     probes |-> <<>>]

\* A scan that takes only the low addresses for reserved.
ScanReservedLow(address) == address \in 0 .. 7

\* The arm 0x00..=0x07 | 0x78..=0x7f of the match on address.
ScanReserved(address) == address \in (0 .. 7) \cup (120 .. 127)

\* One iteration of the inner loop: the cell of the address.
i2c_scan_step ==
    /\ fw = "rpc" /\ profile = "scan"
    /\ scan.address < SCAN_ADDRESSES
    /\ LET address == scan.address
           probe == ~ScanReserved(address) \/ scan.reserved
           stat == IF ~probe THEN "RR"
                   ELSE IF address \in scan.present THEN "hex" ELSE "--"
       IN  scan' = [scan EXCEPT
                      !.address = address + 1,
                      !.table = Append(@, [address |-> address, stat |-> stat]),
                      !.probes = IF probe
                                 THEN Append(@, [address |-> address, count |-> 1])
                                 ELSE @]
    /\ UNCHANGED <<core, busConfig, hal, ffi, client, usb, exec>>

\* -------------------------------------------------------------- environment
\* The host configures the device: the endpoints become enabled.
UsbEnable ==
    /\ ~enabled /\ pc = "WaitingForConnection"
    /\ enabled' = TRUE
    /\ UNCHANGED <<aux, fw, profile, pc, outq, inq, cur, resp, buf, gpios, line, i2cPtr, sent,
                   calls, result, busOp, handled, inProgress, wlog, pipelined, edge>>

\* The host goes away (unplug, reset). What is on the pipes is lost and the
\* host's outstanding calls fail with a transport error. The USB stack only
\* runs while the dispatcher awaits, so not in the middle of a handler.
UsbDisable ==
    /\ enabled /\ pc # "Dispatching"
    /\ enabled' = FALSE
    /\ outq' = <<>>
    /\ inq' = <<>>
    /\ calls' = <<>>
    /\ result' = IF calls = <<>> THEN result
                 ELSE [NoResult EXCEPT !.id = calls[Len(calls)].id,
                                       !.req = calls[Len(calls)].req,
                                       !.outcome = IF fw = "rpc" THEN "Comms"
                                                   ELSE "Io",
                                       !.wire = "Closed"]
    /\ UNCHANGED <<aux, fw, profile, pc, cur, resp, buf, gpios, line, i2cPtr, sent,
                   busOp, handled, inProgress, wlog, pipelined, edge>>

\* The level of the watched line changes, driven from outside.
WatchedPin == 0
Toggle(l) == IF l = "Low" THEN "High" ELSE "Low"

PinChange ==
    /\ profile \in {"gpio", "wait"}
    /\ gpios[WatchedPin].dir # "out"
    /\ line' = [line EXCEPT ![WatchedPin] = Toggle(@)]
    /\ edge' = IF CallIndex(edge.id) # 0 /\ Len(edge.levels) < 3
               THEN [edge EXCEPT !.levels = Append(@, Toggle(line[WatchedPin]))]
               ELSE edge
    /\ UNCHANGED <<aux, fw, profile, enabled, pc, outq, inq, cur, resp, buf, gpios,
                   i2cPtr, sent, calls, result, busOp, handled,
                   inProgress, wlog, pipelined>>

\* ------------------------------------------------------------------- HAL
\* pico-de-gallo-hal: every Gpio, I2c and Spi handle made by one Hal shares
\* one Arc<Mutex<PicoDeGallo>>.  A task is a thread or an async task that
\* uses one of the handles.
HalTasks == {1, 2}

\* stage is where a task is in SpiBus::transfer or transfer_in_place: in
\* neither ("none"), before the end of its write ("write"), or past the write
\* and before the end of its read ("read").
\* txn is the I2c transaction a task is in: its operations, the one it is at,
\* the sequence numbers of the requests it sent and what it returned ("none"
\* while it runs).
NoTransaction ==
    [address |-> 0, ops |-> <<>>, at |-> 0, ids |-> <<>>, out |-> "none"]

HalInit == [lock |-> 0,
            tpc  |-> [t \in HalTasks |-> "idle"],
            call |-> [t \in HalTasks |-> 0],
            stage |-> [t \in HalTasks |-> "none"],
            txn |-> [t \in HalTasks |-> NoTransaction]]

\* What the handles ask of the client: Gpio::is_low_inner, impl Wait for
\* Gpio, an operation of I2c::transaction_inner, and Spi::flush_inner.
HalRequests ==
    {[NoReq EXCEPT !.ep = "gpio/get", !.pin = 0],
     [NoReq EXCEPT !.ep = "gpio/wait-high", !.pin = WatchedPin],
     [NoReq EXCEPT !.ep = "i2c/write", !.address = 72, !.contents = <<1>>],
     [NoReq EXCEPT !.ep = "spi/flush"]}

\* What a task asks of an Spi handle and, beside it, of a Gpio handle.
HalSpiRequests ==
    {[NoReq EXCEPT !.ep = "spi/write", !.contents = <<1, 2>>],
     [NoReq EXCEPT !.ep = "spi/read", !.count = 2],
     [NoReq EXCEPT !.ep = "gpio/get", !.pin = 0]}

\* SpiBus::transfer / transfer_in_place is called: write_inner(write)?, then
\* read_inner(read); the async versions, self.write(..).await?, then
\* self.read(..).await. Each of the two takes the lock for itself.
HalTransfer(t) ==
    /\ fw = "rpc" /\ profile = "hal"
    /\ hal.tpc[t] = "idle" /\ hal.stage[t] = "none"
    /\ hal' = [hal EXCEPT !.stage[t] = "write"]
    /\ UNCHANGED <<core, busConfig, sideAux>>

\* self.gallo.lock(): the task gets the guard when nobody holds it.
HalLock(t) ==
    /\ fw = "rpc" /\ profile = "hal"
    /\ hal.tpc[t] = "idle"
    /\ hal.lock = 0
    /\ hal' = [hal EXCEPT !.lock = t, !.tpc[t] = "locked"]
    /\ UNCHANGED <<fw, profile, enabled, pc, outq, inq, cur, resp, buf, gpios,
                   line, i2cPtr, sent, calls, result, busOp, handled,
                   inProgress, wlog, pipelined, edge, busConfig,
                   sideAux>>

\* gallo.gpio_get(..), gallo.i2c_write(..), ...: with the guard in hand the
\* task sends one request and awaits its response.
HalCall(t, req) ==
    /\ profile = "hal"
    /\ hal.tpc[t] = "locked"
    /\ hal.stage[t] = "write" => req.ep = "spi/write"
    /\ hal.stage[t] = "read" => req.ep = "spi/read"
    /\ HostSend(req)
    /\ hal' = [hal EXCEPT !.tpc[t] = "waiting", !.call[t] = sent + 1]
    /\ UNCHANGED <<busConfig, sideAux>>

\* The awaited call has returned (a response, or an error of the transport):
\* the task goes on inside the scope of the guard.
HalReturn(t) ==
    /\ fw = "rpc" /\ profile = "hal"
    /\ hal.tpc[t] = "waiting"
    /\ CallIndex(hal.call[t]) = 0
    /\ hal' = [hal EXCEPT !.tpc[t] = IF hal.stage[t] = "none" THEN "locked"
                                     ELSE "returned"]
    /\ UNCHANGED <<fw, profile, enabled, pc, outq, inq, cur, resp, buf, gpios,
                   line, i2cPtr, sent, calls, result, busOp, handled,
                   inProgress, wlog, pipelined, edge, busConfig,
                   sideAux>>

\* A guard that is dropped while its call is still awaited.
HalCanUnlockEarly(t) == hal.tpc[t] \in {"locked", "waiting"}

\* The guard is a local of the function: it is dropped when the function
\* returns, which is after the last awaited call; write_inner and read_inner
\* return after their one call.
HalCanUnlock(t) ==
    IF hal.stage[t] = "none" THEN hal.tpc[t] = "locked"
    ELSE hal.tpc[t] = "returned"

HalUnlock(t) ==
    /\ fw = "rpc" /\ profile = "hal"
    /\ hal.lock = t
    /\ HalCanUnlock(t)
    /\ hal' = [hal EXCEPT
                 !.lock = 0, !.tpc[t] = "idle",
                 !.stage[t] = IF hal.stage[t] = "write" /\ result.id = hal.call[t]
                                   /\ result.outcome = "Ok"
                              THEN "read" ELSE "none"]
    /\ UNCHANGED <<fw, profile, enabled, pc, outq, inq, cur, resp, buf, gpios,
                   line, i2cPtr, sent, calls, result, busOp, handled,
                   inProgress, wlog, pipelined, edge, busConfig,
                   sideAux>>

\* embedded_hal::i2c::Operation::Write(bytes) and Operation::Read(buffer): of
\* a read the length of the caller's buffer is what matters.
OpWrite(bytes) == [kind |-> "write", bytes |-> bytes, len |-> Len(bytes)]
OpRead(len) == [kind |-> "read", bytes |-> <<>>, len |-> len]

\* The transactions the tasks ask of an I2c handle: set the register pointer
\* and read, read and write, two writes and a read, and a read into a buffer
\* of more than u16::MAX bytes.
HalTransactions ==
    {<<OpWrite(<<15>>), OpRead(2)>>,
     <<OpRead(2), OpWrite(<<16>>)>>,
     <<OpWrite(<<15>>), OpWrite(<<16>>), OpRead(1)>>,
     <<OpRead(U16_MAX + 3)>>}

\* The request of one operation: gallo.i2c_read(address, read.len() as u16)
\* or gallo.i2c_write(address, write).
HalI2cRequest(address, op) ==
    IF op.kind = "read"
    THEN [NoReq EXCEPT !.ep = "i2c/read", !.address = address,
                       !.count = op.len % (U16_MAX + 1)]
    ELSE [NoReq EXCEPT !.ep = "i2c/write", !.address = address,
                       !.contents = op.bytes]

\* A lock that is handed out whoever holds it.
HalLockFreeAlways == TRUE

\* self.gallo.lock() completes when nobody holds the guard.
HalLockFree == hal.lock = 0

\* I2c::transaction_inner and the async transaction, first statement: the
\* guard is taken once, before the loop over the operations.
HalI2cTransaction(t, ops) ==
    /\ fw = "rpc" /\ profile = "hal"
    /\ hal.tpc[t] = "idle" /\ hal.stage[t] = "none"
    /\ HalLockFree
    /\ hal' = [hal EXCEPT
                 !.lock = t, !.tpc[t] = "txn",
                 !.txn[t] = [address |-> 72, ops |-> ops, at |-> 1,
                             ids |-> <<>>, out |-> "none"]]
    /\ UNCHANGED <<core, busConfig, sideAux>>

\* The loop sends the request of the next operation and awaits its response.
HalI2cOperation(t) ==
    LET x == hal.txn[t]
    IN  /\ profile = "hal"
        /\ hal.tpc[t] = "txn"
        /\ x.out = "none" /\ x.at <= Len(x.ops)
        /\ HostSend(HalI2cRequest(x.address, x.ops[x.at]))
        /\ hal' = [hal EXCEPT !.tpc[t] = "txn-waiting", !.call[t] = sent + 1,
                              !.txn[t].ids = Append(@, sent + 1)]
        /\ UNCHANGED <<busConfig, sideAux>>

\* A loop that goes on to the next operation whatever the call returned.
HalI2cOutcomeLenient(t, op, last) ==
    IF op.kind = "read" /\ result.outcome = "Ok" /\ Len(result.data) # op.len
    THEN "Panic"
    ELSE IF last THEN "Ok"
    ELSE "none"

\* What the loop does with the call that returned: map_err(|_| Error::Other)?
\* ends it on any error; read.copy_from_slice(&contents) panics when the
\* lengths differ; after the last operation the function returns Ok(());
\* otherwise the loop goes on ("none").
HalI2cOutcome(t, op, last) ==
    IF ~(result.id = hal.call[t] /\ result.outcome = "Ok")
    THEN "Other"
    ELSE IF op.kind = "read" /\ Len(result.data) # op.len
    THEN "Panic"
    ELSE IF last THEN "Ok"
    ELSE "none"

\* The awaited call of the current operation has returned.
HalI2cOperationReturn(t) ==
    LET x == hal.txn[t]
        out == HalI2cOutcome(t, x.ops[x.at], x.at = Len(x.ops))
    IN  /\ fw = "rpc" /\ profile = "hal"
        /\ hal.tpc[t] = "txn-waiting"
        /\ CallIndex(hal.call[t]) = 0
        /\ hal' = [hal EXCEPT
                     !.tpc[t] = "txn",
                     !.txn[t].out = out,
                     !.txn[t].at = IF out \in {"none", "Ok"} THEN @ + 1 ELSE @]
        /\ UNCHANGED <<core, busConfig, sideAux>>

\* The function returns (or unwinds) and the guard is dropped.
HalI2cTransactionEnd(t) ==
    /\ fw = "rpc" /\ profile = "hal"
    /\ hal.tpc[t] = "txn"
    /\ hal.txn[t].out # "none"
    /\ hal' = [hal EXCEPT !.lock = 0, !.tpc[t] = "idle",
                          !.txn[t] = NoTransaction]
    /\ UNCHANGED <<core, busConfig, sideAux>>

\* A device that answers a read with fewer bytes than were asked for (another
\* firmware, a fault): the successful response at the head of the IN pipe
\* loses its last byte.
DeviceShortReply ==
    /\ fw = "rpc" /\ profile = "hal"
    /\ inq # <<>>
    /\ Head(inq).key \in {"i2c/read", "spi/read"}
    /\ LET f == Head(inq)
           d == DecodeResponse(f.key, f.body)
       IN  /\ d.ok /\ d.resp.tag # "Err" /\ d.resp.data # <<>>
           /\ inq' = <<[f EXCEPT !.body =
                            EncodeResponse(f.key,
                                RespData(SubSeq(d.resp.data, 1,
                                                Len(d.resp.data) - 1)))]>>
                      \o Tail(inq)
    /\ UNCHANGED <<aux, fw, profile, enabled, pc, outq, cur, resp, buf, gpios,
                   line, i2cPtr, sent, calls, result, busOp, handled,
                   inProgress, wlog, pipelined, edge>>

\* ------------------------------------------------------- pico-de-gallo-ffi
\* The C program holds the pointer gallo_init returned (ptr); alloc is the
\* state of the Box<PicoDeGallo> behind it. ub records that a call touched
\* the allocation after it was freed.
MaxFfiCalls == 5

NoArgs == [bufs |-> <<>>, lens |-> <<>>]

\* ptr is the handle the C program holds, alloc the state of the allocation
\* behind it, sent the number of requests made to the device, and args the
\* buffers and lengths of the last call.
FfiInit ==
    [ptr |-> "null", alloc |-> "none", frees |-> 0, n |-> 0, last |-> "none",
     status |-> "none", ub |-> FALSE, sent |-> 0, args |-> NoArgs]

\* gallo_init: Box::new, Box::into_raw.
gallo_init ==
    /\ ffi.alloc = "none" /\ ffi.n < MaxFfiCalls
    /\ ffi' = [ffi EXCEPT !.ptr = "handle", !.alloc = "live", !.n = @ + 1,
                          !.last = "gallo_init", !.status = "none",
                          !.args = NoArgs]
    /\ UNCHANGED <<core, busConfig, hal, scan, exec, client, usb>>

\* A dropped Box frees its allocation; freeing what is already freed, or
\* using it, is undefined behaviour.
DropBox(f) ==
    [f EXCEPT !.alloc = "freed", !.frees = @ + 1,
              !.ub = f.ub \/ f.alloc = "freed"]

\* The body shared by gallo_ping, gallo_i2c_read, gallo_spi_flush, ...: the
\* NULL check, let gallo = Box::from_raw(gallo), block_on of the client call,
\* the status for its result, and the drop of the Box at the end of the
\* function.
FfiCall(name, failure) ==
    /\ ffi.n < MaxFfiCalls
    /\ IF ffi.ptr = "null"
       THEN ffi' = [ffi EXCEPT !.n = @ + 1, !.last = name,
                               !.status = "Uninitialized", !.args = NoArgs]
       ELSE \E st \in {"Ok", failure} :
              ffi' = [DropBox(ffi) EXCEPT !.n = @ + 1, !.last = name,
                                          !.status = st, !.sent = @ + 1,
                                          !.args = NoArgs]
    /\ UNCHANGED <<core, busConfig, hal, scan, exec, client, usb>>

gallo_ping == FfiCall("gallo_ping", "PingFailed")

gallo_spi_flush == FfiCall("gallo_spi_flush", "SpiFlushFailed")

gallo_gpio_get == FfiCall("gallo_gpio_get", "GpioGetFailed")

gallo_version == FfiCall("gallo_version", "VersionFailed")

\* The buffers and lengths a C program passes to the data operations.
FfiBuffers == {"null", "valid"}
FfiLengths == {2, U16_MAX, U16_MAX + 1}

\* An argument check that looks at the buffers only.
FfiArgsInvalidNullOnly(bufs, lens) ==
    \E i \in 1 .. Len(bufs) : bufs[i] = "null"

\* buf.is_null() and len > u16::MAX.into(), for each buffer of the call.
FfiArgsInvalid(bufs, lens) ==
    \/ \E i \in 1 .. Len(bufs) : bufs[i] = "null"
    \/ \E i \in 1 .. Len(lens) : lens[i] > U16_MAX

\* The body shared by the data operations: the NULL check of the handle, the
\* checks of the buffers and lengths, then Box::from_raw, the client calls in
\* order up to the first that fails, and the drop of the Box.
FfiDataCall(name, failures, bufs, lens) ==
    /\ ffi.n < MaxFfiCalls
    /\ LET base == [ffi EXCEPT !.n = @ + 1, !.last = name,
                               !.args = [bufs |-> bufs, lens |-> lens]]
       IN  IF ffi.ptr = "null"
           THEN ffi' = [base EXCEPT !.status = "Uninitialized"]
           ELSE IF FfiArgsInvalid(bufs, lens)
           THEN ffi' = [base EXCEPT !.status = "InvalidArgument"]
           ELSE \E k \in 1 .. (Len(failures) + 1) :
                  ffi' = [DropBox(base) EXCEPT
                            !.status = IF k <= Len(failures) THEN failures[k]
                                       ELSE "Ok",
                            !.sent = @ + (IF k <= Len(failures) THEN k
                                          ELSE Len(failures))]
    /\ UNCHANGED <<core, busConfig, hal, scan, exec, client, usb>>

gallo_i2c_read ==
    \E b \in FfiBuffers, n \in FfiLengths :
        FfiDataCall("gallo_i2c_read", <<"I2cReadFailed">>, <<b>>, <<n>>)

gallo_i2c_write ==
    \E b \in FfiBuffers, n \in FfiLengths :
        FfiDataCall("gallo_i2c_write", <<"I2cWriteFailed">>, <<b>>, <<n>>)

\* gallo_i2c_write_read: i2c_write, then i2c_read unless the write failed.
gallo_i2c_write_read ==
    \E bufs \in {<<"null", "valid">>, <<"valid", "null">>, <<"valid", "valid">>},
       lens \in {<<2, 2>>, <<U16_MAX + 1, 2>>, <<2, U16_MAX + 1>>} :
        FfiDataCall("gallo_i2c_write_read", <<"I2cWriteFailed", "I2cReadFailed">>,
                    bufs, lens)

gallo_spi_read ==
    \E b \in FfiBuffers, n \in FfiLengths :
        FfiDataCall("gallo_spi_read", <<"SpiReadFailed">>, <<b>>, <<n>>)

gallo_spi_write ==
    \E b \in FfiBuffers, n \in FfiLengths :
        FfiDataCall("gallo_spi_write", <<"SpiWriteFailed">>, <<b>>, <<n>>)

\* gallo_free: drop(Box::from_raw(gallo)) unless the pointer is NULL.
gallo_free ==
    /\ ffi.n < MaxFfiCalls
    /\ ffi' = IF ffi.ptr = "null"
              THEN [ffi EXCEPT !.n = @ + 1, !.last = "gallo_free",
                               !.status = "none", !.args = NoArgs]
              ELSE [DropBox(ffi) EXCEPT !.n = @ + 1, !.last = "gallo_free",
                                        !.status = "none", !.args = NoArgs]
    /\ UNCHANGED <<core, busConfig, hal, scan, exec, client, usb>>

\* ------------------------------------------- one client across a disconnect
\* PicoDeGallo holds one HostClient, bound at construction to the device that
\* was found. link is "up" while that device is there and "gone" from the
\* moment it is not; closed is the client's own closed state, which its I/O
\* workers enter when the transport reports an error.
CloseRequests ==
    {[NoReq EXCEPT !.ep = "ping", !.value = U32(0, 128)],
     [NoReq EXCEPT !.ep = "spi/flush"]}

\* What a call gets from a closed client: HostErr::Closed, through the `?`.
ClosedOutcome(call) ==
    [NoResult EXCEPT !.id = call.id, !.req = call.req, !.outcome = "Comms",
                     !.wire = "Closed"]

\* PicoDeGallo::new(): HostClient::new_raw_nusb finds the device.
ClientNew ==
    /\ fw = "rpc" /\ profile = "close"
    /\ client.link = "none" /\ enabled
    /\ client' = [client EXCEPT !.link = "up"]
    /\ UNCHANGED <<core, busConfig, hal, scan, exec, ffi, usb>>

\* A call on the client while its device is there.
ClientCall(req) ==
    /\ profile = "close"
    /\ client.link = "up"
    /\ HostSend(req)
    /\ UNCHANGED <<busConfig, hal, scan, exec, ffi, client, usb>>

\* A call made after the device went and before the client noticed: it
\* waits for a response that cannot come.
ClientCallUnplugged(req) ==
    /\ fw = "rpc" /\ profile = "close"
    /\ client.link = "gone" /\ ~client.closed
    /\ sent < MaxReqs
    /\ sent' = sent + 1
    /\ calls' = Append(calls, [id |-> sent + 1, req |-> req])
    /\ UNCHANGED <<fw, profile, enabled, pc, outq, inq, cur, resp, buf, gpios,
                   line, i2cPtr, result, busOp, handled, inProgress, wlog,
                   pipelined, edge, busConfig, hal, scan, exec, ffi, client, usb>>

\* A call on the closed client fails at once.
ClientCallClosed(req) ==
    /\ fw = "rpc" /\ profile = "close"
    /\ client.closed
    /\ sent < MaxReqs
    /\ sent' = sent + 1
    /\ result' = ClosedOutcome([id |-> sent + 1, req |-> req])
    /\ UNCHANGED <<fw, profile, enabled, pc, outq, inq, cur, resp, buf, gpios,
                   line, i2cPtr, calls, busOp, handled, inProgress, wlog,
                   pipelined, edge, busConfig, hal, scan, exec, ffi, client, usb>>

\* The device goes away: what is on the pipes is lost, the calls stay
\* outstanding until the client acts.
Unplug ==
    /\ fw = "rpc" /\ profile = "close"
    /\ enabled /\ pc # "Dispatching"
    /\ enabled' = FALSE
    /\ outq' = <<>>
    /\ inq' = <<>>
    /\ client' = IF client.link = "up" THEN [client EXCEPT !.link = "gone"]
                 ELSE client
    /\ UNCHANGED <<fw, profile, pc, cur, resp, buf, gpios, line, i2cPtr, sent,
                   calls, result, busOp, handled, inProgress, wlog, pipelined,
                   edge, busConfig, hal, scan, exec, ffi, usb>>

\* A client that never learns of the loss of its device.
TransportErrorIgnored(c) == FALSE

\* The transport reports the device gone to the client's I/O workers.
TransportError(c) == c.link = "gone" /\ ~c.closed

\* The workers stop and the client is closed.
ClientClose ==
    /\ fw = "rpc" /\ profile = "close"
    /\ TransportError(client)
    /\ client' = [client EXCEPT !.closed = TRUE]
    /\ UNCHANGED <<core, busConfig, hal, scan, exec, ffi, usb>>

\* An outstanding send_resp sees the closed client and returns.
ClientFailCall ==
    /\ fw = "rpc" /\ profile = "close"
    /\ client.closed /\ calls # <<>>
    /\ result' = ClosedOutcome(Head(calls))
    /\ calls' = Tail(calls)
    /\ UNCHANGED <<fw, profile, enabled, pc, outq, inq, cur, resp, buf, gpios,
                   line, i2cPtr, sent, busOp, handled, inProgress, wlog,
                   pipelined, edge, busConfig, hal, scan, exec, ffi, client, usb>>

\* gallo.wait_closed() is called, as examples/ping.rs does in its select!.
WaitClosedCall ==
    /\ fw = "rpc" /\ profile = "close"
    /\ client.link # "none" /\ client.waiter = "none"
    /\ client' = [client EXCEPT !.waiter = "waiting"]
    /\ UNCHANGED <<core, busConfig, hal, scan, exec, ffi, usb>>

\* self.client.wait_closed().await returns.
WaitClosedReturn ==
    /\ fw = "rpc" /\ profile = "close"
    /\ client.waiter = "waiting" /\ client.closed
    /\ client' = [client EXCEPT !.waiter = "done"]
    /\ UNCHANGED <<core, busConfig, hal, scan, exec, ffi, usb>>

\* ------------------------------- legacy firmware: packets of the bulk pipe
\* write_data cuts a message into packets of the endpoint's max_packet_size
\* and read_data puts packets together until a short one. msgs are the
\* messages handed to write_data one after the other, wi and wpos the writer's
\* position, pipe the packets under way, rbuf the bytes the running read_data
\* has received, got what the calls of read_data returned.
USB_BUFFER_SIZE == 4096
MAX_PACKET_SIZE == 64
MaxSmallPackets == 3

UsbIdle ==
    [msgs |-> <<>>, wi |-> 1, wpos |-> 0, pipe |-> <<>>, rbuf |-> <<>>,
     got |-> <<>>, err |-> FALSE]

Message(L) == [i \in 1 .. L |-> (i + L) % 251]
Trailer == <<170>>

\* Lengths around every multiple of the packet size up to MaxSmallPackets
\* packets, and around the size of the buffer.
PacketLengths ==
    (0 .. (MaxSmallPackets * MAX_PACKET_SIZE + 1))
        \cup ((USB_BUFFER_SIZE - MAX_PACKET_SIZE - 1) .. (USB_BUFFER_SIZE - MAX_PACKET_SIZE + 1))
        \cup {USB_BUFFER_SIZE - 1, USB_BUFFER_SIZE}

\* A writer that never sends the zero-length packet.
NeedsZeroLengthPacketNever(L) == FALSE

\* data.len() % max_packet_size == 0
NeedsZeroLengthPacket(L) == L % MAX_PACKET_SIZE = 0

Min(a, b) == IF a < b THEN a ELSE b

\* One self.write_ep.write(..).await of write_data: the next chunk of
\* data.chunks(max_packet_size), or the empty packet after the last chunk.
write_data_packet ==
    /\ fw = "legacy" /\ profile = "packets"
    /\ usb.wi <= Len(usb.msgs)
    /\ LET m == usb.msgs[usb.wi]
           L == Len(m)
           chunk == SubSeq(m, usb.wpos + 1, Min(usb.wpos + MAX_PACKET_SIZE, L))
           last == usb.wpos + Len(chunk) = L /\ ~NeedsZeroLengthPacket(L)
       IN  IF usb.wpos < L
           THEN usb' = [usb EXCEPT !.pipe = Append(@, chunk),
                                   !.wpos = IF last THEN 0 ELSE @ + Len(chunk),
                                   !.wi = IF last THEN @ + 1 ELSE @]
           ELSE usb' = [usb EXCEPT !.pipe = IF NeedsZeroLengthPacket(L)
                                            THEN Append(@, <<>>) ELSE @,
                                   !.wpos = 0, !.wi = @ + 1]
    /\ UNCHANGED <<core, busConfig, hal, scan, exec, ffi, client>>

\* One self.read_ep.read(&mut data[n..]).await? of read_data: a packet longer
\* than what is left of the buffer is an error, a short packet ends the loop
\* and read_data returns the bytes received.
read_data_packet ==
    /\ fw = "legacy" /\ profile = "packets"
    /\ ~usb.err /\ usb.pipe # <<>>
    /\ LET pk == Head(usb.pipe)
       IN  IF Len(pk) > USB_BUFFER_SIZE - Len(usb.rbuf)
           THEN usb' = [usb EXCEPT !.pipe = Tail(@), !.err = TRUE]
           ELSE IF Len(pk) < MAX_PACKET_SIZE
           THEN usb' = [usb EXCEPT !.pipe = Tail(@), !.rbuf = <<>>,
                                   !.got = Append(@, usb.rbuf \o pk)]
           ELSE usb' = [usb EXCEPT !.pipe = Tail(@), !.rbuf = @ \o pk]
    /\ UNCHANGED <<core, busConfig, hal, scan, exec, ffi, client>>

\* ------------------------------------------------------------ specification
\* ------------------------------------------------- the firmware's executor
\* #[embassy_executor::main] runs main on the thread-mode executor and main
\* spawns usb_task on the same executor: one task is polled at a time, and a
\* polled task runs until it returns Pending at an await. What wakes a task
\* is an interrupt of the USB peripheral.
\*   running  the task being polled, or "none"
\*   ready    the tasks that have been woken and not polled since
\*   main     where the server task is: awaiting a frame, in a handler before
\*            its bus call, inside the blocking bus call, or at the reply
\*   left     bytes the blocking bus call still has to move
\*   frames   request frames received and not taken by the server
\*   ctrl     control requests received and not handled by usb_task
MaxFrames == 2
MaxControl == 2
TransferLengths == {1, 2}

ExecInit ==
    [running |-> "none", ready |-> {"main", "usb"}, main |-> "await",
     left |-> 0, frames |-> 0, ctrl |-> 0]

\* The executor polls a task when no task is being polled and the task has
\* been woken.
CanPoll(task) == exec.running = "none" /\ task \in exec.ready

ExecPoll(task) ==
    /\ profile = "exec"
    /\ CanPoll(task)
    /\ exec' = [exec EXCEPT !.running = task, !.ready = @ \ {task}]
    /\ UNCHANGED <<core, busConfig, hal, ffi, client, usb, scan>>

\* The host sends a request frame: the bulk OUT endpoint wakes the server.
ExecHostRequest ==
    /\ profile = "exec"
    /\ exec.frames < MaxFrames
    /\ exec' = [exec EXCEPT !.frames = @ + 1, !.ready = @ \cup {"main"}]
    /\ UNCHANGED <<core, busConfig, hal, ffi, client, usb, scan>>

\* The host sends a control request: the interrupt wakes usb_task.
ExecHostControl ==
    /\ profile = "exec"
    /\ exec.ctrl < MaxControl
    /\ exec' = [exec EXCEPT !.ctrl = @ + 1, !.ready = @ \cup {"usb"}]
    /\ UNCHANGED <<core, busConfig, hal, ffi, client, usb, scan>>

\* usb_task: usb.run().await handles what is pending and awaits again.
usb_task ==
    /\ profile = "exec"
    /\ exec.running = "usb"
    /\ exec' = [exec EXCEPT !.ctrl = 0, !.running = "none"]
    /\ UNCHANGED <<core, busConfig, hal, ffi, client, usb, scan>>

\* main: server.run().await takes a frame and calls its handler, or awaits.
server_run ==
    /\ profile = "exec"
    /\ exec.running = "main" /\ exec.main = "await"
    /\ exec' = IF exec.frames = 0
               THEN [exec EXCEPT !.running = "none"]
               ELSE [exec EXCEPT !.frames = @ - 1, !.main = "handler"]
    /\ UNCHANGED <<core, busConfig, hal, ffi, client, usb, scan>>

\* i2c_read_handler, spi_read_handler, ...: the handler calls
\* context.i2c.blocking_read(..) or context.spi.blocking_read(..).
handler_blocking_call ==
    /\ profile = "exec"
    /\ exec.running = "main" /\ exec.main = "handler"
    /\ \E n \in TransferLengths :
          exec' = [exec EXCEPT !.main = "transfer", !.left = n]
    /\ UNCHANGED <<core, busConfig, hal, ffi, client, usb, scan>>

\* Inside the blocking call: the peripheral moves one byte while the call
\* spins on its status; after the last byte the call returns to the handler,
\* which returns its response.
handler_blocking_step ==
    /\ profile = "exec"
    /\ exec.running = "main" /\ exec.main = "transfer"
    /\ exec' = IF exec.left > 0
               THEN [exec EXCEPT !.left = @ - 1]
               ELSE [exec EXCEPT !.main = "reply"]
    /\ UNCHANGED <<core, busConfig, hal, ffi, client, usb, scan>>

\* The server sends the response and awaits the completion of the write,
\* which wakes it again.
server_reply ==
    /\ profile = "exec"
    /\ exec.running = "main" /\ exec.main = "reply"
    /\ exec' = [exec EXCEPT !.main = "await", !.running = "none",
                            !.ready = @ \cup {"main"}]
    /\ UNCHANGED <<core, busConfig, hal, ffi, client, usb, scan>>

Profiles(f) ==
    IF f = "rpc" THEN {"ping", "i2c", "spi", "gpio", "wait"} ELSE {"legacy"}

InitState(f, prof) ==
    /\ fw = f
    /\ profile = prof
    /\ enabled = FALSE
    /\ pc = "WaitingForConnection"
    /\ outq = <<>>
    /\ inq = <<>>
    /\ cur = NoFrame
    /\ resp = NoFrame
    /\ buf = [i \in 1 .. (CASE fw = "rpc" -> BUFFER_SIZE
                             [] fw = "legacy" -> BUS_BUFFER_SIZE
                             [] fw = "perbus" /\ prof = "spi" -> SPI_DATA_SIZE
                             [] OTHER -> GPIO_USB_BUFFER_SIZE) |-> 0]
    /\ gpios = [p \in Pins |-> [dir |-> "off", level |-> "Low"]]
    /\ line = [p \in Pins |-> "Low"]
    /\ i2cPtr = 0
    /\ sent = 0
    /\ calls = <<>>
    /\ result = NoResult
    /\ busOp = NoBusOp
    /\ handled = 0
    /\ inProgress = {}
    /\ wlog = [prev |-> 0, id |-> 0, latest |-> 0]
    /\ pipelined = FALSE
    /\ edge = [id |-> 0, levels |-> <<>>]
    /\ busConfig = DefaultConfig
    /\ hal = HalInit
    /\ ffi = FfiInit
    /\ client = [link |-> "none", closed |-> FALSE, waiter |-> "none"]
    /\ usb \in IF prof = "packets"
               THEN {[UsbIdle EXCEPT !.msgs = <<Message(L), Trailer>>] :
                         L \in PacketLengths}
               ELSE {UsbIdle}
    /\ scan \in IF prof = "scan"
                THEN {[ScanIdle EXCEPT !.reserved = r, !.present = d] :
                          r \in BOOLEAN, d \in ScanDevices}
                ELSE {ScanIdle}
    /\ exec = ExecInit

Init ==
    \E f \in {"rpc", "legacy"} : \E prof \in Profiles(f) : InitState(f, prof)

Next ==
    \/ RpcConnect
    \/ RpcReceive
    \/ RpcReceiveFail
    \/ RpcDispatch
    \/ RpcReply
    \/ \E req \in HostRequests : HostCall(req)
    \/ HostReceive
    \/ wait_for_connection
    \/ read_data
    \/ read_data_err
    \/ gallo_task_handle
    \/ write_data
    \/ \E req \in LegacyRequests : LegacyHostCall(req)
    \/ \E bytes \in MalformedFrames : LegacyHostSend(bytes)
    \/ LegacyHostReceive
    \/ UsbEnable
    \/ UsbDisable
    \/ PinChange

Spec == Init /\ [][Next]_vars

\* The device with the HAL on top of the client.
InitHal == InitState("rpc", "hal")

NextHal ==
    \/ RpcConnect
    \/ RpcReceive
    \/ RpcReceiveFail
    \/ RpcDispatch
    \/ RpcReply
    \/ HostReceive
    \/ UsbEnable
    \/ UsbDisable
    \/ \E t \in HalTasks : HalLock(t)
    \/ \E t \in HalTasks : \E req \in HalRequests : HalCall(t, req)
    \/ \E t \in HalTasks : HalReturn(t)
    \/ \E t \in HalTasks : HalUnlock(t)

SpecHal == InitHal /\ [][NextHal]_vars

\* Tasks that use an Spi handle for transfers beside other handles of the
\* same Hal.
NextHalSpi ==
    \/ RpcConnect
    \/ RpcReceive
    \/ RpcReceiveFail
    \/ RpcDispatch
    \/ RpcReply
    \/ HostReceive
    \/ UsbEnable
    \/ UsbDisable
    \/ \E t \in HalTasks : HalTransfer(t)
    \/ \E t \in HalTasks : HalLock(t)
    \/ \E t \in HalTasks : \E req \in HalSpiRequests : HalCall(t, req)
    \/ \E t \in HalTasks : HalReturn(t)
    \/ \E t \in HalTasks : HalUnlock(t)

SpecHalSpi == InitHal /\ [][NextHalSpi]_vars

\* Tasks that run transactions on an I2c handle beside the Spi and Gpio
\* handles of the same Hal.
NextHalI2c ==
    \/ RpcConnect
    \/ RpcReceive
    \/ RpcReceiveFail
    \/ RpcDispatch
    \/ RpcReply
    \/ HostReceive
    \/ UsbEnable
    \/ UsbDisable
    \/ \E t \in HalTasks : HalLock(t)
    \/ \E t \in HalTasks : \E req \in HalSpiRequests : HalCall(t, req)
    \/ \E t \in HalTasks : HalReturn(t)
    \/ \E t \in HalTasks : HalUnlock(t)
    \/ \E t \in HalTasks : \E ops \in HalTransactions : HalI2cTransaction(t, ops)
    \/ \E t \in HalTasks : HalI2cOperation(t)
    \/ \E t \in HalTasks : HalI2cOperationReturn(t)
    \/ \E t \in HalTasks : HalI2cTransactionEnd(t)

SpecHalI2c == InitHal /\ [][NextHalI2c]_vars

\* The tasks of the postcard-rpc firmware on their executor.
InitExec == InitState("rpc", "exec")

NextExec ==
    \/ \E task \in {"main", "usb"} : ExecPoll(task)
    \/ ExecHostRequest
    \/ ExecHostControl
    \/ usb_task
    \/ server_run
    \/ handler_blocking_call
    \/ handler_blocking_step
    \/ server_reply

SpecExec == InitExec /\ [][NextExec]_vars

\* The HAL in front of a device that may answer a read short.
NextHalShort ==
    \/ NextHalI2c
    \/ DeviceShortReply

SpecHalShort == InitHal /\ [][NextHalShort]_vars

\* The GPIO task of the per-interface firmware and a host that writes raw
\* frames to it.
InitGpioTask == InitState("perbus", "gpio")

NextGpioTask ==
    \/ gpio_run_wait_enabled
    \/ gpio_run_read
    \/ gpio_run_read_err
    \/ gpio_run_handle
    \/ gpio_run_write
    \/ \E bytes \in GpioTaskFrames : GpioTaskHostSend(bytes)
    \/ GpioTaskHostReceive
    \/ UsbEnable
    \/ UsbDisable

SpecGpioTask == InitGpioTask /\ [][NextGpioTask]_vars

\* The host writes to I2C devices through the postcard-rpc firmware.
InitCodec == InitState("rpc", "codec")

NextCodec ==
    \/ RpcConnect
    \/ RpcReceive
    \/ RpcReceiveFail
    \/ RpcDispatch
    \/ RpcReply
    \/ \E req \in HostRequests : HostCall(req)
    \/ HostReceive
    \/ UsbEnable
    \/ UsbDisable

SpecCodec == InitCodec /\ [][NextCodec]_vars

\* The host reconfigures the buses, on either firmware.
InitConfig == \E f \in {"rpc", "legacy"} : InitState(f, "config")

NextConfig ==
    \/ RpcConnect
    \/ RpcReceive
    \/ RpcReceiveFail
    \/ RpcDispatch
    \/ RpcReply
    \/ \E req \in HostRequests : HostCall(req)
    \/ HostReceive
    \/ wait_for_connection
    \/ read_data
    \/ read_data_err
    \/ gallo_task_handle
    \/ write_data
    \/ \E req \in LegacyRequests : LegacyHostCall(req)
    \/ LegacyHostReceive
    \/ UsbEnable
    \/ UsbDisable

SpecConfig == InitConfig /\ [][NextConfig]_vars

\* A host that reconfigures the buses between its other requests, on both
\* dispatchers.
InitMixed == \E f \in {"rpc", "legacy"} : InitState(f, "mixed")

\* The host waits for the response of a call before it makes the next.
NextMixed ==
    \/ RpcConnect
    \/ RpcReceive
    \/ RpcReceiveFail
    \/ RpcDispatch
    \/ RpcReply
    \/ \E req \in HostRequests : (calls = <<>> /\ HostCall(req))
    \/ HostReceive
    \/ wait_for_connection
    \/ read_data
    \/ read_data_err
    \/ gallo_task_handle
    \/ write_data
    \/ \E req \in LegacyRequests : LegacyHostCall(req)
    \/ LegacyHostReceive
    \/ UsbEnable
    \/ UsbDisable

SpecMixed == InitMixed /\ [][NextMixed]_vars

\* The host reads and drives the pins, on each of the three GPIO dispatchers.
InitGpio == \E f \in {"rpc", "legacy", "perbus"} : InitState(f, "gpio")

NextGpio ==
    \/ RpcConnect
    \/ RpcReceive
    \/ RpcReceiveFail
    \/ RpcDispatch
    \/ RpcReply
    \/ \E req \in HostRequests : HostCall(req)
    \/ HostReceive
    \/ wait_for_connection
    \/ read_data
    \/ read_data_err
    \/ gallo_task_handle
    \/ write_data
    \/ \E req \in LegacyRequests : LegacyHostCall(req)
    \/ LegacyHostReceive
    \/ gpio_run_wait_enabled
    \/ gpio_run_read
    \/ gpio_run_read_err
    \/ gpio_run_handle
    \/ gpio_run_write
    \/ \E req \in LegacyGpioRequests : GpioTaskHostCall(req)
    \/ GpioTaskHostReceive
    \/ UsbEnable
    \/ UsbDisable
    \/ PinChange

SpecGpio == InitGpio /\ [][NextGpio]_vars

\* A C program that calls the functions of the FFI.
InitFfi == InitState("rpc", "ffi")

NextFfi ==
    \/ gallo_init
    \/ gallo_ping
    \/ gallo_i2c_read
    \/ gallo_i2c_write
    \/ gallo_i2c_write_read
    \/ gallo_spi_read
    \/ gallo_spi_write
    \/ gallo_spi_flush
    \/ gallo_gpio_get
    \/ gallo_version
    \/ gallo_free

SpecFfi == InitFfi /\ [][NextFfi]_vars

\* Calls that make several requests in a row: the transactions of the HAL, or
\* the data operations of the FFI.
InitSequences == InitHal \/ InitFfi

NextSequences ==
    \/ (profile = "hal" /\ NextHalI2c)
    \/ (profile = "ffi" /\ NextFfi)

SpecSequences == InitSequences /\ [][NextSequences]_vars

\* One client and the device it was made for, which can go away. The
\* client's workers and the tasks awaiting it run on the tokio runtime, which
\* polls every task that is ready.
InitClose == InitState("rpc", "close")

NextClose ==
    \/ RpcConnect
    \/ RpcReceive
    \/ RpcReceiveFail
    \/ RpcDispatch
    \/ RpcReply
    \/ HostReceive
    \/ UsbEnable
    \/ Unplug
    \/ ClientNew
    \/ \E req \in CloseRequests : ClientCall(req)
    \/ \E req \in CloseRequests : ClientCallUnplugged(req)
    \/ \E req \in CloseRequests : ClientCallClosed(req)
    \/ ClientClose
    \/ ClientFailCall
    \/ WaitClosedCall
    \/ WaitClosedReturn

\* write_data on one side of the pipe and read_data on the other.
InitPackets == InitState("legacy", "packets")

NextPackets == write_data_packet \/ read_data_packet

SpecPackets == InitPackets /\ [][NextPackets]_vars

\* The host reads and writes the buses through the legacy dispatchers:
\* gallo_task, and the SPI task of the per-interface firmware.
InitBus == InitState("legacy", "bus") \/ InitState("perbus", "spi")

NextBus ==
    \/ wait_for_connection
    \/ read_data
    \/ read_data_err
    \/ gallo_task_handle
    \/ write_data
    \/ \E req \in LegacyRequests : LegacyHostCall(req)
    \/ LegacyHostReceive
    \/ gpio_run_wait_enabled
    \/ spi_run_read
    \/ gpio_run_read_err
    \/ spi_run_handle
    \/ gpio_run_write
    \/ \E bytes \in SpiTaskFrames : SpiTaskHostSend(bytes)
    \/ SpiTaskHostReceive
    \/ UsbEnable
    \/ UsbDisable

SpecBus == InitBus /\ [][NextBus]_vars

\* A host program uses the I2C client of the legacy library.
InitI2cClient == InitState("host", "i2c")

NextI2cClient ==
    \/ \E req \in I2cClientCalls : i2c_blocking_call(req)
    \/ \E b \in StatusBytes : I2cDeviceReply(b)
    \/ i2c_blocking_return
    \/ UsbEnable
    \/ UsbDisable

SpecI2cClient == InitI2cClient /\ [][NextI2cClient]_vars

\* The command line application scans the I2C bus.
InitScan == InitState("rpc", "scan")

NextScan == i2c_scan_step

SpecScan == InitScan /\ [][NextScan]_vars

\* gallo_task serving bus and GPIO requests. The executor runs the task
\* whenever it can take a step: the match runs to its end and the write of
\* the response completes.
InitLegacyLive == InitState("legacy", "bus") \/ InitState("legacy", "gpio")

NextLegacyLive ==
    \/ wait_for_connection
    \/ read_data
    \/ read_data_err
    \/ gallo_task_handle
    \/ write_data
    \/ \E req \in LegacyRequests : LegacyHostCall(req)
    \/ LegacyHostReceive
    \/ UsbEnable
    \/ UsbDisable

\* The step of gallo_task_handle as the dispatcher's position shows it: the
\* match ends in a response or in a panic. gallo_task_handle is enabled
\* exactly when the dispatcher is in the match, and no other step of
\* gallo_task leaves the match.
gallo_task_handle_ends ==
    /\ fw = "legacy" /\ pc = "Dispatching"
    /\ pc' \in {"Responding", "Panicked"}

SpecLegacyLive ==
    /\ InitLegacyLive /\ [][NextLegacyLive]_vars
    /\ WF_pc(gallo_task_handle_ends)
    /\ WF_vars(write_data)

SpecClose ==
    /\ InitClose /\ [][NextClose]_vars
    /\ WF_vars(ClientClose)
    /\ WF_vars(ClientFailCall)
    /\ WF_vars(WaitClosedReturn)

\* ============================================================== properties
Connected == {"AwaitingFrame", "Dispatching", "Responding"}

\* The typed request of the frame the postcard-rpc dispatcher is handling.
CurReq == DecodeRequest(cur.key, cur.body).req

\* The typed response the postcard-rpc dispatcher is about to write.
CurResp == DecodeResponse(cur.key, resp.body)

\* The postcard-rpc dispatcher has run the handler of endpoint ep for the
\* current frame and holds its response.
Handled(ep) ==
    /\ fw = "rpc" /\ pc = "Responding"
    /\ cur.key = ep /\ resp.key = ep /\ resp.seq = cur.seq

\* The last call of the host was to endpoint ep and a frame from the device
\* completed it.
Returned(ep) ==
    /\ fw = "rpc" /\ result.id # 0
    /\ result.req.ep = ep
    /\ result.wire # "Closed"

\* ---------------------------------------------------------------------- C1
\* C1: on one connection the responses are written in the order the requests
\* were issued (each response is for a later request than the one before it,
\* on the wire to the host as well), and while the host issues its requests
\* one after the other every response written answers the request sent last.
C1_ResponsesInRequestOrder ==
    /\ wlog.id # 0 => wlog.prev < wlog.id
    /\ (wlog.id # 0 /\ ~pipelined) => wlog.id = wlog.latest
    /\ \A i, j \in DOMAIN inq : i < j => inq[i].seq < inq[j].seq

\* Two requests sent one after the other were answered, first then second.
C1_Witness ==
    /\ ~pipelined
    /\ wlog.prev = 1 /\ wlog.id = 2
    /\ result.id = 2

\* ---------------------------------------------------------------------- C2
\* C2: the dispatcher has at most one request in progress: between reading a
\* frame and writing (or abandoning) its response the only frame in progress
\* is the current one, none is in progress while it awaits a frame, and the
\* handler has run at most once for the current frame.
C2_OneRequestInProgress ==
    /\ Cardinality(inProgress) <= 1
    /\ handled <= 1
    /\ pc \in {"Dispatching", "Responding"} => inProgress = {cur.seq}
    /\ pc \in {"AwaitingFrame", "WaitingForConnection"} => inProgress = {}
    /\ pc = "Dispatching" => handled = 0
    /\ pc = "Responding" => handled = 1

\* The next frame waits on the pipe while the response to the current one is
\* still to be written.
C2_Witness ==
    /\ pc = "Responding" /\ handled = 1
    /\ outq # <<>>
    /\ inProgress = {cur.seq}

\* ---------------------------------------------------------------------- C3
\* C3: in the postcard-rpc firmware a read of more than BUFFER_SIZE bytes is
\* answered with the failure marker and no bus operation; a read never
\* indexes the working buffer out of range; a read of exactly BUFFER_SIZE
\* bytes goes to the bus and, the bus willing, returns BUFFER_SIZE bytes.
C3_OversizeReadRejected ==
    \A ep \in {"i2c/read", "spi/read"} :
        /\ ~(fw = "rpc" /\ pc = "Panicked" /\ cur.key = ep)
        /\ Handled(ep) =>
             /\ CurResp.ok
             /\ CurReq.count > BUFFER_SIZE =>
                    CurResp.resp.tag = "Err" /\ busOp = NoBusOp
             /\ CurReq.count = BUFFER_SIZE =>
                    /\ busOp.op # "none" /\ busOp.len = BUFFER_SIZE
                    /\ busOp.ok =>
                         /\ CurResp.resp.tag = "Ok"
                         /\ Len(CurResp.resp.data) = BUFFER_SIZE

\* A read of BUFFER_SIZE + 1 bytes was answered with the failure marker, and
\* the host got it as the endpoint's error.
C3_Witness ==
    /\ Returned("i2c/read")
    /\ result.req.count = BUFFER_SIZE + 1
    /\ result.outcome = "Endpoint"

\* ---------------------------------------------------------------------- C4
\* C4: ping(v) returns v: the response of the ping handler carries the value
\* of the request, and a ping that a frame from the device completed returned
\* Ok with the value it sent.
C4_PingEchoes ==
    /\ Handled("ping") => CurResp.ok /\ CurResp.resp.value = CurReq.value
    /\ Returned("ping") =>
           result.outcome = "Ok" /\ result.value = result.req.value

\* ping(u32::MAX) returned u32::MAX.
C4_Witness ==
    /\ Returned("ping")
    /\ result.req.value = U32(U16_MAX, U16_MAX)
    /\ result.value = U32(U16_MAX, U16_MAX)
    /\ result.outcome = "Ok"

\* ---------------------------------------------------------------------- C5
\* C5: in the postcard-rpc firmware a successful I2cRead(address, count) has
\* read exactly count bytes from address on the bus, and its response carries
\* those bytes, which are what the device holds from its register pointer on;
\* the host gets count bytes.
C5_I2cReadReturnsBusBytes ==
    /\ (Handled("i2c/read") /\ CurResp.ok /\ CurResp.resp.tag = "Ok") =>
           /\ busOp = [op |-> "i2c_read", address |-> CurReq.address,
                       len |-> CurReq.count, ok |-> TRUE, bytes |-> <<>>]
           /\ CurResp.resp.data = I2cStubData(i2cPtr, CurReq.count)
    /\ (Returned("i2c/read") /\ result.outcome = "Ok") =>
           /\ Len(result.data) = result.req.count
           /\ \E ptr \in {0, i2cPtr} :
                  result.data = I2cStubData(ptr, result.req.count)

\* i2c_write(0x48, [0x0F]) then i2c_read(0x48, 2) returned [0xAB, 0xCD].
C5_Witness ==
    /\ Returned("i2c/read")
    /\ result.id = 2
    /\ result.req.address = 72 /\ result.req.count = 2
    /\ i2cPtr = 15
    /\ result.outcome = "Ok"
    /\ result.data = <<171, 205>>

\* ---------------------------------------------------------------------- C6
\* The response frame r to the request frame c is the failure response.
IsFailureMarker(c, r) ==
    IF fw = "rpc"
    THEN LET d == DecodeResponse(c.key, r.body)
         IN  r.key = c.key /\ d.ok /\ d.resp.tag = "Err"
    ELSE LET d == LegacyDecodeResponse(r.body)
         IN  d.ok /\ d.resp.kind = "InvalidRequest"

\* The response frame r to the request frame c is the success response.
IsSuccess(c, r) ==
    IF fw = "rpc"
    THEN LET d == DecodeResponse(c.key, r.body)
         IN  r.key = c.key /\ d.ok /\ d.resp.tag = "Ok"
    ELSE LET d == LegacyDecodeResponse(r.body)
         IN  d.ok /\ d.resp.kind \in {"I2c", "Spi"} /\ d.resp.status = 0

\* C6: a bus operation that fails yields the failure marker of that request
\* and leaves the dispatcher connected, about to write it; the write of a
\* response on a live connection leads to awaiting the next frame; and a bus
\* operation that succeeds yields success whatever happened to the requests
\* before it.
C6_BusFailureIsLocal ==
    [][/\ (pc = "Dispatching" /\ busOp'.op # "none" /\ ~busOp'.ok) =>
              (pc' = "Responding" /\ IsFailureMarker(cur', resp'))
       /\ (pc = "Dispatching" /\ busOp'.op # "none" /\ busOp'.ok
             /\ pc' = "Responding") => IsSuccess(cur', resp')
       /\ (pc = "Responding" /\ pc' # "Responding" /\ enabled) =>
              pc' = "AwaitingFrame"]_vars

\* The call before failed on the bus and the host got the failure marker; the
\* dispatcher has since handled the next request against a working bus.
C6_Witness ==
    /\ fw = "rpc"
    /\ result.id = 1 /\ result.outcome = "Endpoint"
    /\ result.req.ep \in {"i2c/write", "spi/write", "spi/flush"}
    /\ pc = "Responding" /\ cur.seq = 2
    /\ busOp.op # "none" /\ busOp.ok
    /\ IsSuccess(cur, resp)

\* ---------------------------------------------------------------------- C7
\* C7: in gallo_task a frame that does not decode is answered with
\* Response::InvalidRequest and the dispatcher stays connected: taking such a
\* frame off the OUT endpoint leads to the write of that response.
C7_DecodeFailureAnswered ==
    [][(/\ fw = "legacy" /\ pc = "AwaitingFrame" /\ enabled /\ enabled'
        /\ outq # <<>> /\ cur' = Head(outq) /\ pc' # "AwaitingFrame"
        /\ ~LegacyDecodeRequest(Head(outq).body).ok)
       => (/\ pc' = "Responding"
           /\ resp'.body = LegacyEncodeResponse(InvalidRequest))]_vars

\* ---------------------------------------------------------------------- C8
\* C8: a failed read on the OUT endpoint takes a connected dispatcher to
\* WaitingForConnection, and the dispatcher task never terminates: it is
\* always waiting for the connection or connected.
C8_ReadFailureReconnects ==
    [][/\ (pc = "AwaitingFrame" /\ ~enabled /\ pc' # pc) =>
              pc' = "WaitingForConnection"
       /\ pc' \in Connected \cup {"WaitingForConnection"}]_vars

\* ---------------------------------------------------------------------- C9
\* The levels seen have one equal to a followed by one equal to b.
SawThen(levels, a, b) ==
    \E i, j \in DOMAIN levels : i < j /\ levels[i] = a /\ levels[j] = b

\* C9: gpio_wait_for_rising_edge has not returned unless the line was Low and
\* then High after the call started; gpio_wait_for_falling_edge, High and then
\* Low.
C9_EdgeWaitNeedsEdge ==
    /\ (Returned("gpio/wait-rising") /\ edge.id = result.id) =>
           SawThen(edge.levels, "Low", "High")
    /\ (Returned("gpio/wait-falling") /\ edge.id = result.id) =>
           SawThen(edge.levels, "High", "Low")

\* --------------------------------------------------------------------- C10
\* C10: gpio_wait_for_high returns success, and not before the line has been
\* High since the call started; gpio_wait_for_low, Low.
C10_LevelWaitSucceeds ==
    /\ (Returned("gpio/wait-high") /\ edge.id = result.id) =>
           /\ result.outcome = "Ok"
           /\ \E i \in DOMAIN edge.levels : edge.levels[i] = "High"
    /\ (Returned("gpio/wait-low") /\ edge.id = result.id) =>
           /\ result.outcome = "Ok"
           /\ \E i \in DOMAIN edge.levels : edge.levels[i] = "Low"

\* --------------------------------------------------------------------- C11
\* C11: gpio_wait_for_any_edge returns success, and not before the level of
\* the line has changed after the call started.
C11_AnyEdgeWaitNeedsTransition ==
    (Returned("gpio/wait-any") /\ edge.id = result.id) =>
        /\ result.outcome = "Ok"
        /\ Len(edge.levels) >= 2

\* --------------------------------------------------------------------- C12
\* C12: over all the handles of one Hal at most one request is in flight; a
\* request is in flight only while its sender holds the shared lock, and the
\* lock is held until the response has arrived, a GPIO wait included.
\* A request is on the wire from its sending until its response is taken, as
\* long as the connection it was sent on lasts.
InFlight ==
    Len(outq) + Len(inq)
        + (IF enabled /\ pc \in {"Dispatching", "Responding"} THEN 1 ELSE 0)

C13_ErrorChannelsNeverCross ==
    [][(fw = "rpc" /\ result' # result) =>
          IF enabled /\ ~enabled'
          THEN result'.outcome = "Comms"
          ELSE LET f == Head(inq)
                   call == calls[CallIndex(f.seq)]
                   d == DecodeResponse(call.req.ep, f.body)
                   answered == f.key = call.req.ep /\ d.ok
               IN  /\ result'.id = call.id
                   /\ result'.outcome \in {"Ok", "Endpoint", "Comms"}
                   /\ result'.outcome = "Endpoint" <=>
                          (answered /\ d.resp.tag = "Err")
                   /\ result'.outcome = "Comms" <=> ~answered
                   /\ result'.outcome = "Ok" =>
                          /\ result'.data = d.resp.data
                          /\ result'.value = d.resp.value
                          /\ result'.state = d.resp.state]_vars

C13_Witness ==
    /\ result.outcome = "Endpoint"
    /\ result.req.ep = "i2c/read"
    /\ busOp.op = "i2c_read" /\ ~busOp.ok

\* --------------------------------------------------------------------- C14
\* C14: when the I2C reconfiguration of a SetConfiguration request fails, the
\* response is the failure outcome (SetConfigurationFail; InvalidRequest on
\* the legacy firmware), although the SPI configuration was applied.
SetConfigHandled ==
    /\ pc = "Responding"
    /\ busOp.op = "i2c_set_config"
    /\ IF fw = "rpc" THEN cur.key = "set-config"
       ELSE LegacyDecodeRequest(cur.body).req.kind = "SetConfig"

SetConfigReportsFailure ==
    IF fw = "rpc"
    THEN resp.key = "set-config" /\ resp.body = <<1>>
    ELSE resp.body = LegacyEncodeResponse(InvalidRequest)

C14_I2cFailureIsReported ==
    (SetConfigHandled /\ ~busOp.ok) => SetConfigReportsFailure

C14_Witness ==
    /\ SetConfigHandled /\ ~busOp.ok
    /\ SetConfigReportsFailure
    /\ busConfig.spi_polarity = 1
    /\ busConfig.i2c_frequency = DefaultConfig.i2c_frequency

\* --------------------------------------------------------------------- C15
\* C15: every SetConfiguration request has its SPI configuration applied to
\* the SPI bus, whether the I2C reconfiguration succeeded or failed.
SetConfigRequested ==
    IF fw = "rpc" THEN DecodeRequest(cur.key, cur.body).req.config
    ELSE LegacyDecodeRequest(cur.body).req.config

C15_SpiConfigAlwaysApplied ==
    SetConfigHandled =>
        /\ busConfig.spi_frequency = SetConfigRequested.spi_frequency
        /\ busConfig.spi_phase = SetConfigRequested.spi_phase
        /\ busConfig.spi_polarity = SetConfigRequested.spi_polarity

C15_Witness ==
    /\ SetConfigHandled /\ ~busOp.ok
    /\ fw = "legacy"
    /\ SetConfigRequested.spi_frequency # DefaultConfig.spi_frequency
    /\ busConfig.spi_frequency = SetConfigRequested.spi_frequency
    /\ busConfig.spi_phase = 1

\* --------------------------------------------------------------------- C16
\* C16: a SetConfiguration that reports failure leaves the configuration of
\* both buses as it was before the request.
IsSetConfig(frame) ==
    IF fw = "rpc" THEN frame.key = "set-config"
    ELSE LegacyDecodeRequest(frame.body).req.kind = "SetConfig"

C16_FailedSetConfigChangesNothing ==
    [][(pc = "Dispatching" /\ IsSetConfig(cur) /\ pc' = "Responding"
          /\ ~busOp'.ok) => busConfig' = busConfig]_vars

\* --------------------------------------------------------------------- C17
\* C17: the handling of a GpioGet naming a pin of 0..7 leaves that pin an
\* input (its output driver off), the handling of a GpioPut leaves it an
\* output that drives the state of the request, and no other pin and no
\* other step changes a pin; so each pin is as its last request left it, or
\* in its initial mode.
GpioRequestOf(frame) ==
    CASE fw = "rpc" ->
           LET d == DecodeRequest(frame.key, frame.body)
           IN  [get |-> frame.key = "gpio/get" /\ d.ok,
                put |-> frame.key = "gpio/put" /\ d.ok,
                pin |-> d.req.pin, state |-> d.req.state]
      [] fw = "legacy" ->
           LET d == LegacyDecodeRequest(frame.body)
           IN  [get |-> d.ok /\ d.req.kind = "Gpio" /\ d.req.opcode = 0,
                put |-> d.ok /\ d.req.kind = "Gpio" /\ d.req.opcode = 1
                          /\ d.req.state.some,
                pin |-> d.req.pin, state |-> d.req.state.val]
      [] OTHER ->
           LET d == GpioTaskDecodeRequest(frame.body)
           IN  [get |-> d.ok /\ d.req.opcode = 0,
                put |-> d.ok /\ d.req.opcode = 1 /\ d.req.state.some,
                pin |-> d.req.pin, state |-> d.req.state.val]

C17_PinFollowsLastRequest ==
    [][LET r == GpioRequestOf(cur)
           handling == pc = "Dispatching" /\ pc' # "Dispatching"
       IN  \A p \in Pins :
             IF handling /\ r.get /\ r.pin = p
             THEN gpios'[p].dir # "out"
             ELSE IF handling /\ r.put /\ r.pin = p
             THEN /\ gpios'[p] = [dir |-> "out", level |-> r.state]
                  /\ line'[p] = r.state
             ELSE gpios'[p] = gpios[p]]_vars

\* --------------------------------------------------------------------- C18
\* C18: the handle gallo_init returned stays valid across every sequence of
\* gallo_* calls: only gallo_free releases it, it is released at most once,
\* and no call touches it after its release.
C18_HandleValidUntilFree ==
    /\ ffi.frees <= 1
    /\ ffi.alloc = "freed" => ffi.last = "gallo_free"
    /\ ~ffi.ub

\* --------------------------------------------------------------------- C19
\* C19: when the device goes away while a call is outstanding, the call
\* completes with a communication error, wait_closed() returns, and every
\* call made after the close fails with a communication error.
C19_OutstandingCallFails ==
    \A id \in 1 .. MaxReqs :
        (client.link = "gone" /\ CallIndex(id) # 0)
            ~> (result.id = id /\ result.outcome = "Comms")

C19_WaitClosedReturns ==
    (client.link = "gone" /\ client.waiter = "waiting") ~> (client.waiter = "done")

C19_CallsAfterCloseFail ==
    [][(client.closed /\ sent' = sent + 1) =>
           (result'.id = sent' /\ result'.outcome = "Comms")]_vars

C20_PacketRoundTrip ==
    /\ ~usb.err
    /\ Len(usb.got) <= Len(usb.msgs)
    /\ \A k \in DOMAIN usb.got : usb.got[k] = usb.msgs[k]
    /\ Len(usb.got) = Len(usb.msgs) => (usb.pipe = <<>> /\ usb.rbuf = <<>>)
    /\ (usb.wi > Len(usb.msgs) /\ usb.pipe = <<>>) => Len(usb.got) = Len(usb.msgs)

C20_Witness ==
    /\ Len(usb.msgs) = 2 /\ Len(usb.msgs[1]) = USB_BUFFER_SIZE
    /\ usb.got = usb.msgs
\* C21: whenever the dispatcher handles the frame of an i2c/write call, the
\* request it decodes is the request the host encoded, and the bus write it
\* performs carries exactly the address and the bytes of that call, in order.
C21_I2cWriteRoundTrip ==
    [][(fw = "rpc" /\ pc = "Dispatching" /\ pc' # "Dispatching"
          /\ \E k \in 1 .. Len(calls) :
                 calls[k].id = cur.seq /\ calls[k].req.ep = "i2c/write")
       => \A k \in 1 .. Len(calls) :
             calls[k].id = cur.seq
             => /\ DecodeRequest("i2c/write", cur.body) =
                      [ok |-> TRUE, req |-> calls[k].req]
                /\ busOp'.op = "i2c_write"
                /\ busOp'.address = calls[k].req.address
                /\ busOp'.bytes = calls[k].req.contents]_vars

C21_Witness ==
    /\ fw = "rpc" /\ pc = "Responding"
    /\ busOp.op = "i2c_write" /\ busOp.address = 255
    /\ Len(busOp.bytes) = 128 /\ busOp.bytes[128] = 127
    /\ \E k \in 1 .. Len(calls) :
          calls[k].id = cur.seq /\ calls[k].req.contents = busOp.bytes
\* The size field of the request being dispatched by a legacy dispatcher,
\* and what the buffer of its handler holds.
LegacyCurSize ==
    IF fw = "legacy"
    THEN LET r == LegacyDecodeRequest(cur.body).req
         IN  IF r.size.some THEN r.size.val ELSE 0
    ELSE buf[2] + 256 * buf[3]

LegacyCapacity == IF fw = "legacy" THEN BUS_BUFFER_SIZE ELSE SPI_DATA_SIZE

LegacySized ==
    IF fw = "legacy"
    THEN LET r == LegacyDecodeRequest(cur.body).req
         IN  (r.kind = "I2c" /\ r.opcode = 0) \/ (r.kind = "Spi" /\ r.opcode = 0)
    ELSE fw = "perbus" /\ profile = "spi" /\ buf[1] \in {0, 1, 2, 3}

C24_StatusByteMapping ==
    [][(fw = "host" /\ profile = "i2c" /\ inq # <<>> /\ calls # <<>>
          /\ calls' = <<>> /\ enabled' /\ Head(calls).req.opcode = 0)
       => LET b == Head(inq).body[1]
              kind == I2cErrorKind(result'.outcome, result'.wire)
          IN  /\ result'.id = Head(calls).id
              /\ result'.outcome \in {"Ok", "I2c"}
              /\ b = 0 <=> result'.outcome = "Ok"
              /\ b = 1 <=> (result'.wire = "NoAcknowledge"
                              /\ kind = "NoAcknowledge(Address)")
              /\ b = 2 <=> (result'.wire = "ArbitrationLoss"
                              /\ kind = "ArbitrationLoss")
              /\ b \notin {0, 1, 2} <=> (result'.wire = "Other" /\ kind = "Other")]_vars

C24_Witness ==
    /\ fw = "host" /\ profile = "i2c" /\ calls = <<>> /\ sent = MaxReqs
    /\ result.id = MaxReqs /\ result.req.opcode = 0
    /\ result.outcome = "I2c" /\ result.wire = "Other"
\* C25: with reserved = false, the scan has issued no request for the
\* addresses 0x00..=0x07 and 0x78..=0x7F, which it marks "RR", and exactly one
\* read of count 1 for each other address it has passed, in ascending order
\* (112 of them at the end); a probe that failed marks its own address "--"
\* and the scan went on to the addresses after it.
C25_ScanSkipsReserved ==
    (profile = "scan" /\ ~scan.reserved)
    => LET passed == 0 .. (scan.address - 1)
           probed == {a \in passed : a \in 8 .. 119}
       IN  /\ Len(scan.table) = scan.address
           /\ Len(scan.probes) = Cardinality(probed)
           /\ \A i \in 1 .. Len(scan.probes) :
                 scan.probes[i] = [address |-> 7 + i, count |-> 1]
           /\ \A a \in passed :
                 /\ scan.table[a + 1].address = a
                 /\ scan.table[a + 1].stat =
                      (IF a \notin probed THEN "RR"
                       ELSE IF a \in scan.present THEN "hex" ELSE "--")
           /\ scan.address = SCAN_ADDRESSES => Len(scan.probes) = 112

C25_Witness ==
    /\ profile = "scan" /\ ~scan.reserved /\ scan.address = SCAN_ADDRESSES
    /\ scan.present = {8, 119}
    /\ scan.table[10].stat = "--" /\ scan.table[120].stat = "hex"
    /\ scan.table[121].stat = "RR" /\ Len(scan.probes) = 112
\* C26: a data operation of the FFI called with a NULL handle returns
\* Uninitialized, and called with a NULL buffer or a length above 65535 it
\* returns InvalidArgument; in both cases no request is sent to the device
\* and the handle and its allocation are as before the call.
FfiDataOperations ==
    {"gallo_i2c_read", "gallo_i2c_write", "gallo_i2c_write_read",
     "gallo_spi_read", "gallo_spi_write"}

C26_InvalidCallsAreRefused ==
    [][(ffi'.n = ffi.n + 1 /\ ffi'.last \in FfiDataOperations)
       => LET bufs == ffi'.args.bufs
              lens == ffi'.args.lens
              refused == \/ ffi.ptr = "null"
                         \/ \E i \in 1 .. Len(bufs) : bufs[i] = "null"
                         \/ \E i \in 1 .. Len(lens) : lens[i] > 65535
          IN  refused =>
                /\ ffi'.status = IF ffi.ptr = "null" THEN "Uninitialized"
                                 ELSE "InvalidArgument"
                /\ ffi'.sent = ffi.sent
                /\ ffi'.ptr = ffi.ptr /\ ffi'.alloc = ffi.alloc
                /\ ffi'.frees = ffi.frees /\ ffi'.ub = ffi.ub]_vars

C26_Witness ==
    /\ ffi.last = "gallo_i2c_write_read" /\ ffi.status = "InvalidArgument"
    /\ ffi.args = [bufs |-> <<"valid", "valid">>, lens |-> <<2, 65536>>]
    /\ ffi.alloc = "live" /\ ffi.sent = 0

\* C27: the dispatcher routes every endpoint of ENDPOINT_LIST to a handler:
\* the frame of a call the host client made, whose key is a path of the
\* list, is never answered with the wire error UnknownKey.
C27_EveryEndpointIsRouted ==
    (fw = "rpc" /\ pc = "Responding" /\ cur.key \in Endpoints
       /\ \E k \in 1 .. Len(calls) :
             calls[k].id = cur.seq /\ calls[k].req.ep = cur.key)
    => resp # WireErrorFrame(cur.seq, "UnknownKey")

\* C28: a GpioGet or GpioPut request is answered whatever pin it carries: the
\* handler does not index the 8 pins out of range, a pin of 8 or more gets
\* the failure marker of the endpoint, and the dispatcher goes on to write
\* the response.
C28_PinOutOfRangeIsRejected ==
    [][LET r == GpioRequestOf(cur)
       IN  (pc = "Dispatching" /\ pc' # "Dispatching" /\ (r.get \/ r.put))
           => /\ pc' = "Responding"
              /\ r.pin >= NUM_GPIOS =>
                    CASE fw = "rpc" -> resp'.body = EncodeResponse(cur.key, RespErr)
                      [] fw = "legacy" ->
                           resp'.body = LegacyEncodeResponse(InvalidRequest)
                      [] OTHER -> resp'.body[1] # 0]_vars

\* C29: a request frame that gallo_task decoded is followed by its response
\* on the IN endpoint, with the dispatcher awaiting the next frame, unless
\* the connection goes down first.
C29_RequestGetsOneResponse ==
    \A id \in 1 .. MaxReqs :
        (fw = "legacy" /\ pc = "Dispatching" /\ cur.seq = id)
            ~> ((pc = "AwaitingFrame" /\ wlog.id = id) \/ ~enabled)

\* C30: between the write request of a transfer and the read request that
\* follows it, no other handle of the same Hal sends a request: while a task
\* is past the write of its transfer and has not sent the read, no other
\* task sends.
C30_TransferIsContiguous ==
    [][\A t \in HalTasks :
          (hal.stage[t] = "read" /\ hal.tpc[t] \in {"idle", "locked"})
          => \A u \in HalTasks \ {t} :
                ~(sent' = sent + 1 /\ hal'.call[u] = sent + 1)]_vars

\* --------------------------------------------------------------------- C31
\* A task is in the middle of a transaction: it has sent a request of it and
\* has not returned.
InTransaction(t) ==
    /\ hal.tpc[t] \in {"txn", "txn-waiting"}
    /\ hal.txn[t].ids # <<>>
    /\ hal.txn[t].out = "none"

\* C31: the requests of an I2c transaction go out in slice order, the k-th
\* request being the one of the k-th operation, and from the first request
\* of a transaction until the transaction returns no other handle of the
\* same Hal sends a request: the sequence numbers of the transaction's
\* requests are consecutive.
C31_TransactionIsContiguous ==
    [][\A t \in HalTasks :
          LET x == hal.txn[t]
          IN  /\ (InTransaction(t) /\ sent' # sent)
                    => /\ hal.tpc[t] = "txn"
                       /\ hal'.txn[t].ids = Append(x.ids, x.ids[Len(x.ids)] + 1)
              /\ (hal.tpc[t] = "txn" /\ hal'.tpc[t] = "txn-waiting")
                    => /\ hal'.txn[t].ids = Append(x.ids, sent + 1)
                       /\ outq' # <<>>
                       /\ outq'[Len(outq')] =
                             LET req == HalI2cRequest(x.address,
                                                      x.ops[Len(x.ids) + 1])
                             IN  [key |-> req.ep, seq |-> sent + 1,
                                  body |-> EncodeRequest(req)]]_vars

\* A transaction has sent its second request while the other task stands
\* before the lock.
C31_Witness ==
    \E t \in HalTasks :
        /\ hal.tpc[t] = "txn-waiting"
        /\ Len(hal.txn[t].ids) = 2
        /\ \A u \in HalTasks \ {t} : hal.tpc[u] = "idle"

\* --------------------------------------------------------------------- C32
\* The register pointer the device is left with by the operations of a
\* transaction that completed: the first byte of the last non-empty write
\* among the first n operations, or p when there is none.
RECURSIVE PointerAfter(_, _, _)
PointerAfter(ops, n, p) ==
    IF n = 0 THEN p
    ELSE IF ops[n].kind = "write" /\ ops[n].bytes # <<>> THEN ops[n].bytes[1]
    ELSE PointerAfter(ops, n - 1, p)

\* C32: when an operation of an I2c transaction fails, the transaction
\* returns an error and sends no further request, and the device keeps what
\* the completed operations did: the register pointer is the one the last
\* completed write set (or the one the failed operation set, when it failed
\* after the device had performed it). gallo_i2c_write_read that reports I2cWriteFailed has
\* made one request, the write, and not the read; one that reports
\* I2cReadFailed or Ok has made both.
C32_StopsAtFirstFailure ==
    [][/\ \A t \in HalTasks :
            LET x == hal.txn[t]
            IN  /\ (hal.tpc[t] = "txn-waiting" /\ hal'.tpc[t] = "txn"
                       /\ result.outcome # "Ok")
                      => /\ hal'.txn[t].out = "Other"
                         /\ hal'.txn[t].at = x.at
                         /\ x.at > 1 =>
                               i2cPtr' \in {PointerAfter(x.ops, x.at - 1, i2cPtr'),
                                            PointerAfter(x.ops, x.at, i2cPtr')}
                /\ x.out # "none"
                      => /\ hal'.call[t] = hal.call[t]
                         /\ hal'.txn[t] \in {x, NoTransaction}
       /\ (ffi'.n = ffi.n + 1 /\ ffi'.last = "gallo_i2c_write_read")
            => CASE ffi'.status = "I2cWriteFailed" -> ffi'.sent = ffi.sent + 1
                 [] ffi'.status \in {"I2cReadFailed", "Ok"} ->
                      ffi'.sent = ffi.sent + 2
                 [] OTHER -> ffi'.sent = ffi.sent]_vars

\* The read of a write-then-read transaction failed after the write had set
\* the register pointer: the transaction has returned the error.
C32_Witness ==
    \E t \in HalTasks :
        /\ hal.txn[t].out = "Other"
        /\ hal.txn[t].at = 2
        /\ hal.txn[t].ops[1].kind = "write"
        /\ result.outcome = "Endpoint"
        /\ i2cPtr = 15

\* --------------------------------------------------------------------- C33
\* C33: while a handler's blocking bus transfer is in progress, usb_task can
\* be scheduled: when it has been woken, the executor can poll it.
C33_UsbTaskRunsDuringTransfer ==
    (exec.main = "transfer" /\ "usb" \in exec.ready) => CanPoll("usb")

\* --------------------------------------------------------------------- C34
\* C34: gallo_task answers an I2C Read of size n by a bus read of n bytes from
\* the address of the request and, when the bus read succeeds, by a Success
\* response that carries those n bytes.
C34_LegacyI2cReadLength ==
    [][LET d == LegacyDecodeRequest(cur.body)
           r == LegacyDecodeResponse(resp'.body)
       IN  (fw = "legacy" /\ pc = "Dispatching" /\ pc' # "Dispatching"
              /\ d.ok /\ d.req.kind = "I2c" /\ d.req.opcode = 0)
           => /\ busOp'.op = "i2c_read"
              /\ busOp'.address = d.req.address
              /\ busOp'.len = d.req.size.val
              /\ busOp'.ok =>
                    /\ pc' = "Responding"
                    /\ r.ok /\ r.resp.kind = "I2c" /\ r.resp.status = 0
                    /\ r.resp.data.some
                    /\ Len(r.resp.data.val) = d.req.size.val]_vars

\* --------------------------------------------------------------------- C35
\* C35: a read of an I2c transaction whose successful response carries a
\* number of bytes other than the length of the caller's buffer ends the
\* transaction with an error: the host does not panic.
C35_LengthMismatchIsAnError ==
    [][\A t \in HalTasks :
          LET x == hal.txn[t]
          IN  (hal.tpc[t] = "txn-waiting" /\ hal'.tpc[t] = "txn"
                 /\ x.ops[x.at].kind = "read" /\ x.ops[x.at].len <= U16_MAX
                 /\ result.id = hal.call[t] /\ result.outcome = "Ok"
                 /\ Len(result.data) # x.ops[x.at].len)
              => hal'.txn[t].out = "Other"]_vars

\* --------------------------------------------------------------------- C36
\* C36: the count of a read request that the HAL sends is the length of the
\* buffer the caller passed: a read that is not rejected asks the device for
\* as many bytes as the caller asked for.
C36_CountIsTheLengthAskedFor ==
    [][\A t \in HalTasks :
          LET x == hal.txn[t]
          IN  (hal.tpc[t] = "txn" /\ hal'.tpc[t] = "txn-waiting"
                 /\ x.ops[x.at].kind = "read")
              => /\ calls' # <<>>
                 /\ calls'[Len(calls')].req.ep = "i2c/read"
                 /\ calls'[Len(calls')].req.count = x.ops[x.at].len
                 /\ DecodeRequest("i2c/read", outq'[Len(outq')].body).req.count
                       = x.ops[x.at].len]_vars

\* --------------------------------------------------------------------- C37
\* C37: blocking_write returns Ok exactly when the status byte of the
\* response the device sent for this write is 0, and an I2C error for every
\* other status byte.
C37_WriteStatusIsReported ==
    [][(fw = "host" /\ profile = "i2c" /\ inq # <<>> /\ calls # <<>>
          /\ calls' = <<>> /\ enabled' /\ Head(calls).req.opcode = 1)
       => /\ result'.id = Head(calls).id
          /\ (result'.outcome = "Ok") <=> (Head(inq).body[1] = 0)]_vars

\* --------------------------------------------------------------------- C38
\* C38: what the GPIO task decodes for a frame is what it would decode for
\* the same frame in a run without earlier frames, where the receive buffer
\* holds the frame and zeroes: the bytes that earlier frames left in the
\* buffer have no part in it.
C38_DecodingIgnoresEarlierFrames ==
    (fw = "perbus" /\ profile = "gpio" /\ pc = "Dispatching")
    => GpioTaskDecodeRequest(buf)
         = GpioTaskDecodeRequest(
               FillPrefix([i \in 1 .. GPIO_USB_BUFFER_SIZE |-> 0], cur.body))

\* --------------------------------------------------------------------- C39
\* C39: the SPI task answers a Read of size n whose bus read succeeded with
\* the Success status, the two size bytes and the n bytes read from the bus,
\* in this order and nothing else.
C39_SpiReadReturnsBusBytes ==
    [][(fw = "perbus" /\ profile = "spi" /\ pc = "Dispatching"
          /\ pc' = "Responding" /\ SpiOpcodeFrom(buf[1]) = "Read"
          /\ busOp'.ok)
       => LET size == buf[2] + 256 * buf[3]
          IN  /\ busOp'.op = "spi_read" /\ busOp'.len = size
              /\ resp'.body = <<0, buf[2], buf[3]>> \o SpiStubData(size)]_vars

\* --------------------------------------------------------------------- C40
\* C40: the configuration of the buses changes only in the handling of a
\* SetConfiguration request: the handling of every other request, whether it
\* succeeds, fails or is refused, and every other step leave it as it was.
C40_OnlySetConfigReconfigures ==
    [][busConfig' # busConfig => (pc = "Dispatching" /\ IsSetConfig(cur))]_vars

\* After a reconfiguration an I2C write that failed on the bus has been
\* handled, and the buses still run with the configuration that was set.
C40_Witness ==
    /\ fw = "rpc" /\ pc = "Responding" /\ cur.key = "i2c/write"
    /\ busOp.op = "i2c_write" /\ ~busOp.ok
    /\ busConfig # DefaultConfig
====
